---- MODULE Spec2Model ----
(***************************************************************************)
(* Wait engine of the daemon (agentic_computer_use): the scheduler loop    *)
(* WaitEngine._run_loop, the HTTP handlers that submit, update and cancel  *)
(* wait jobs, the task journal hooks on_wait_created / on_wait_finished,   *)
(* and the per-display capture lock of capture/screen.py.                  *)
(*                                                                         *)
(* The daemon is one asyncio event loop: a coroutine runs without          *)
(* interruption from one await to the next.  Every action of the scheduler *)
(* and of the handlers is one such segment.  While the scheduler coroutine *)
(* is between awaits (loop = "top") no other coroutine runs.               *)
(*                                                                         *)
(* Time.  time.time() is kept relative to the present: age is              *)
(* now - context.started_at, due is next_check_at - now and still is       *)
(* now - _last_vision_at, in ticks.  Tick lets one tick pass.  age         *)
(* saturates above every timeout, still at MaxStatic, and due at           *)
(* -OverdueCap, which also stands for next_check_at = 0.                   *)
(*                                                                         *)
(* Spec is the engine with two jobs, SoloSpec the engine with one job      *)
(* whose timeout outlasts MaxStatic, CaptureSpec the capture lock,         *)
(* TaskSpec the task manager (task/manager.py: update_task,                *)
(* update_plan_item, the wait hooks and check_stuck_tasks, with the clock  *)
(* in steps of ClockStep seconds) and DisplaySpec the display manager      *)
(* (display/manager.py).  WakeSpec is the engine with the wake emission    *)
(* failing, PlanSpec the task manager's registration with every plan, and  *)
(* ContextSpec the rolling context of a job (wait/context.py).  GateSpec   *)
(* is the pixel-diff gate (capture/diff.py), ParseSpec the verdict parser  *)
(* _parse_verdict and PollSpec the adaptive poller (wait/poller.py).       *)
(* FaultSpec is the engine with the journal write and the window lookup    *)
(* raising, LinkSpec the engine with both jobs linked to the task,         *)
(* LookupSpec the engine with a job that watches a window given by name,   *)
(* and OrphanSpec the task manager's stuck check with waits no scheduler   *)
(* holds.  Each leaves the variables of the others alone.                  *)
(*                                                                         *)
(* A WaitJob object that is neither in the map nor held by a suspended     *)
(* evaluation is garbage: its runtime-only fields are cleared (Gone), its  *)
(* status, result, task id, criteria and frames are kept for the record.   *)
(***************************************************************************)
EXTENDS Integers, Sequences, FiniteSets, TLC

\* ---------------------------------------------------------------- bounds
Jobs == {"j1", "j2"}
Tasks == {"t1"}
NoTask == "no_task"
NoJob == "no_job"
NoChange == "unchanged"
Threads == {"scheduler", "frame_buffer", "recorder"}
Displays == {":99", ":100"}
NoDisplay == "None"
NoThread == "no_thread"
NoLock == <<"no_lock", NoThread>>
MaxTimeout == 1
MaxInterval == 1
OverdueCap == 1
MaxStatic == 2
\* The timeout, in ticks, that requests ask for, and the poller intervals.
Timeouts == {MaxTimeout}
Intervals == {MaxInterval}
\* elapsed is followed up to one tick past the job's timeout.
AgeCap(to) == to + 1
Epoch == 0 - OverdueCap

\* The task manager's clock moves in steps of ClockStep seconds; a task has
\* at most MaxMsgs messages and MaxActions actions.
Waits == {"w1"}
ClockStep == 150
MaxMsgs == 3
MaxActions == 1

\* The display manager serves DisplayTasks, scans MaxDisplays display numbers
\* and is called at most MaxCalls times.
DisplayTasks == {"t1", "t2", "t3"}
MaxDisplays == 3
MaxCalls == 4
MaxAdds == 5
DIFF_MAX_WIDTH == 2
MaxPolls == 8

\* ------------------------------------------------------ program constants
PARTIAL_STREAK_RESOLVE == 2
MAX_CONTEXT_FRAMES == 4
MAX_CONTEXT_VERDICTS == 3
PIXEL_DIFF_THRESHOLD == [num |-> 1, den |-> 100]
Zero == [num |-> 0, den |-> 1]
One == [num |-> 1, den |-> 1]
NoFrame == <<"None">>
NoThreshold == [num |-> 0, den |-> 1]
INTENSITY == 10
RESOLVE_CONFIDENCE_THRESHOLD == 75
DEFAULT_POLL_INTERVAL == [num |-> 2, den |-> 1]
MIN_POLL_INTERVAL == [num |-> 1, den |-> 2]
MAX_POLL_INTERVAL == [num |-> 5, den |-> 1]
STATIC_CALLS == 5
NoBase == [num |-> 0, den |-> 0]
NoConfidence == [kind |-> "None", value |-> 0]
NoEvidence == [kind |-> "list", items |-> <<>>]
NoJson == [decision |-> "none", confidence |-> NoConfidence, evidence |-> NoEvidence]
Malformed == [decision |-> "malformed", confidence |-> NoConfidence, evidence |-> NoEvidence]
NoReply == [lines |-> <<>>, json |-> NoJson]
NoVerdict == [result |-> "none", detail |-> "none"]
STUCK_THRESHOLD_SECONDS == 300
STUCK_ALERT_COOLDOWN_SECONDS == 300
VALID_STATUSES == {"active", "paused", "completed", "failed", "cancelled"}
TERMINAL_STATUSES == {"completed", "failed", "cancelled"}
VALID_ITEM_STATUSES == {"pending", "active", "completed", "failed", "skipped"}

\* Ages are followed up to one step past the threshold they are compared to.
IdleCap == STUCK_THRESHOLD_SECONDS + ClockStep
AlertCap == STUCK_ALERT_COOLDOWN_SECONDS + ClockStep

\* register_task's initial metadata: no wait ids, last_stuck_alert_at = 0.
NoMeta == [wait_ids |-> {}, alert_age |-> AlertCap, display |-> NoDisplay]
NoSnap == [status |-> "none", meta |-> NoMeta, idle |-> 0]
NoCall == [pc |-> "idle", task |-> NoTask, meta |-> NoMeta]
NoCheck == [pc |-> "idle", rows |-> [t \in Tasks |-> NoSnap], todo |-> {}, alerts |-> {}]
NoStatus == "no_status"
NoOrdinal == -1

\* _find_free_display_num(start = 100); the scan ends at LastDisplayNum.
FirstDisplayNum == 100
LastDisplayNum == FirstDisplayNum + MaxDisplays - 1
DisplayNums == FirstDisplayNum..LastDisplayNum
NoNum == 0
NoInfo == [task_id |-> NoTask, display_num |-> NoNum, process |-> 0]

\* config.DISPLAY, with no DISPLAY in the environment.
ConfigDisplay == ":99"

Terminal == {"resolved", "timeout", "cancelled"}
WaitStates == {"watching", "resolved", "timeout", "cancelled", "error"}
Verdicts == {"resolved", "partial", "watching", "error"}
NoRow == [status |-> "none", result |-> "none", task |-> NoTask]

\* A WaitJob before handle_smart_wait has built it.
NoObject ==
    [status |-> "none", result |-> "none", task |-> NoTask, criteria |-> "c0",
     timeout |-> MaxTimeout, age |-> 0, due |-> Epoch, still |-> 0, hasFrame |-> FALSE,
     streak |-> 0, gate |-> FALSE, poller |-> "new"]

VARIABLES
    jobs,        \* WaitEngine.jobs: the ids in the in-memory map
    job,         \* the WaitJob objects: status, result_message, task_id, criteria,
                 \* timeout, context.started_at (age), next_check_at (due),
                 \* _last_vision_at (still), context.frames non-empty (hasFrame),
                 \* _partial_streak, diff_gate.last_frame present (gate),
                 \* the last call made on its poller (poller)
    row,         \* the wait_jobs table
    active,      \* tasks.metadata.active_wait_ids
    shots,       \* the ids with an '<id>_after.jpg' in the screenshots directory
    wakes,       \* the wake events emitted, per job, in order
    loop,        \* where the scheduler coroutine is
    cur,         \* _run_loop's next_job while its evaluation is suspended
    kind,        \* the terminal path the scheduler is in
    loopRunning, \* WaitEngine._loop_running
    wakeEvent,   \* WaitEngine._wake_event is set
    sleepLeft,   \* what is left of wait_for's timeout
    sMeta,       \* on_wait_finished's meta, as read by the scheduler's call
    hs,          \* handle_smart_wait's position, per job
    hc,          \* handle_wait_cancel's position, per job
    hMeta,       \* on_wait_created's meta, as read by handle_smart_wait's call
    cMeta,       \* on_wait_finished's meta, as read by handle_wait_cancel's call
    evaluated,   \* the scheduler has captured (or tried to capture) for the job
    resolved_window_id, \* WaitJob._resolved_window_id is not None
    looked,      \* the job's last _capture call called find_window_by_name
    xlib_locks,    \* capture/screen.py _xlib_locks: display string -> Lock
    xlib_locks_mu, \* the thread inside "with _xlib_locks_mu", if any
    held,          \* the Lock objects that are locked
    pc,            \* where each capturing thread is
    disp,          \* the display string of the thread's capture call
    got,           \* the Lock _get_xlib_lock returned to the thread
    tstatus,       \* tasks.status, "none" before the task is registered
    idle,          \* now - tasks.updated_at, in seconds
    tmeta,         \* tasks.metadata: active_wait_ids, now - last_stuck_alert_at
    msgs,          \* task_messages.msg_type of the task's messages, in order
    nactions,      \* the number of rows of the task in actions
    plan_items,    \* the plan_items rows of each task: ordinal, title, status
    tdisplay,      \* the task holds a display of the display manager
    reply,         \* what the last update_task call returned
    wait_jobs,     \* wait_jobs.status of the waits linked to tasks
    ow,            \* on_wait_created / on_wait_finished between read and write
    stuck,         \* check_stuck_tasks: position, rows selected, alerts so far
    since_alert,   \* seconds since an alert for the task was last returned
    abandoned,     \* the waits no scheduler holds whose row still says watching
    displays,      \* display/manager.py _displays: task id -> DisplayInfo
    xlocks,        \* the display numbers with a /tmp/.X<num>-lock file
    started,       \* the number of Xvfb processes started so far
    calls,         \* the number of allocate_display calls so far
    last,          \* what the last allocate_display call returned
    emitted,       \* how the last call of _inject_system_event ended
    frames,        \* JobContext.frames of one job context
    verdicts,      \* JobContext.verdicts of that context
    ingested,      \* the number of add_frame calls so far
    judged,        \* the number of add_verdict calls so far
    images,        \* the image list the last build_prompt call returned
    last_frame,      \* PixelDiffGate.last_frame
    last_diff_pct,   \* PixelDiffGate.last_diff_pct, as a fraction
    threshold,       \* PixelDiffGate.threshold, as a fraction
    given,           \* the caller's array after the last should_evaluate call
    should,          \* what the last should_evaluate call returned
    response,        \* the reply last handed to _parse_verdict
    parsed,          \* what that _parse_verdict call returned
    base,            \* AdaptivePoller.base, as a fraction of seconds
    interval,        \* AdaptivePoller.current (.interval), as a fraction of seconds
    static_count,    \* AdaptivePoller.static_count
    polled           \* the number of calls on the poller since it was made

engine == <<jobs, loop, cur, kind, loopRunning, wakeEvent, sleepLeft, sMeta>>
journal == <<row, active, shots, wakes>>
handlers == <<hs, hc, hMeta, cMeta>>
lookup == <<resolved_window_id, looked>>
history == <<evaluated, lookup>>
capture == <<xlib_locks, xlib_locks_mu, held, pc, disp, got>>
tasking == <<tstatus, idle, tmeta, msgs, nactions, plan_items, tdisplay, reply, wait_jobs,
             ow, stuck,
             since_alert>>
displaying == <<displays, xlocks, started, calls, last>>
context == <<frames, verdicts, ingested, judged, images>>
gating == <<last_frame, last_diff_pct, threshold, given, should>>
parsing == <<response, parsed>>
polling == <<base, interval, static_count, polled>>
orphans == <<abandoned>>
library == <<context, gating, parsing, polling, orphans>>
backstage == <<tasking, displaying, library>>
offstage == <<capture, backstage, emitted>>
vars == <<job, engine, journal, handlers, history, capture, backstage, emitted>>

Min(a, b) == IF a < b THEN a ELSE b
Max(a, b) == IF a > b THEN a ELSE b

Init ==
    /\ jobs = {}
    /\ job = [j \in Jobs |-> NoObject]
    /\ row = [j \in Jobs |-> NoRow]
    /\ active = [t \in Tasks |-> {}]
    /\ shots = {}
    /\ wakes = [j \in Jobs |-> <<>>]
    /\ emitted = "none"
    /\ frames = <<>>
    /\ verdicts = <<>>
    /\ ingested = 0
    /\ judged = 0
    /\ images = <<>>
    /\ last_frame = NoFrame
    /\ last_diff_pct = Zero
    /\ threshold = PIXEL_DIFF_THRESHOLD
    /\ given = NoFrame
    /\ should = FALSE
    /\ response = NoReply
    /\ parsed = NoVerdict
    /\ base = DEFAULT_POLL_INTERVAL
    /\ interval = DEFAULT_POLL_INTERVAL
    /\ static_count = 0
    /\ polled = 0
    /\ loop = "none"
    /\ cur = NoJob
    /\ kind = "none"
    /\ loopRunning = FALSE
    /\ wakeEvent = FALSE
    /\ sleepLeft = 0
    /\ sMeta = {}
    /\ hs = [j \in Jobs |-> "new"]
    /\ hc = [j \in Jobs |-> "idle"]
    /\ hMeta = [j \in Jobs |-> {}]
    /\ cMeta = [j \in Jobs |-> {}]
    /\ evaluated = [j \in Jobs |-> FALSE]
    /\ resolved_window_id = [j \in Jobs |-> FALSE]
    /\ looked = [j \in Jobs |-> FALSE]
    /\ xlib_locks = [d \in Displays |-> NoLock]
    /\ xlib_locks_mu = NoThread
    /\ held = {}
    /\ pc = [t \in Threads |-> "idle"]
    /\ disp = [t \in Threads |-> ConfigDisplay]
    /\ got = [t \in Threads |-> NoLock]
    /\ tstatus = [t \in Tasks |-> "none"]
    /\ idle = [t \in Tasks |-> 0]
    /\ tmeta = [t \in Tasks |-> NoMeta]
    /\ msgs = [t \in Tasks |-> <<>>]
    /\ nactions = [t \in Tasks |-> 0]
    /\ plan_items = [t \in Tasks |-> {}]
    /\ tdisplay = [t \in Tasks |-> FALSE]
    /\ reply = "none"
    /\ wait_jobs = [w \in Waits |-> "none"]
    /\ ow = [w \in Waits |-> NoCall]
    /\ stuck = NoCheck
    /\ since_alert = [t \in Tasks |-> AlertCap]
    /\ abandoned = {}
    /\ displays = [t \in DisplayTasks |-> NoInfo]
    /\ xlocks = {}
    /\ started = 0
    /\ calls = 0
    /\ last = NoInfo

\* The runtime-only fields of an object nothing refers to any more.
Gone(o) ==
    [o EXCEPT !.timeout = MaxTimeout, !.age = 0, !.due = Epoch, !.still = 0, !.streak = 0,
              !.gate = FALSE, !.poller = "new"]

\* ------------------------------------------------------------ time.time()
\* One tick passes.  Only coroutines suspended at an await see time pass.
Tick ==
    /\ loop # "top"
    /\ job' = [j \in Jobs |->
                 IF job[j].status = "watching"
                 THEN [job[j] EXCEPT !.age = Min(@ + 1, AgeCap(job[j].timeout)),
                                     !.due = Max(@ - 1, Epoch),
                                     !.still = IF job[j].hasFrame THEN Min(@ + 1, MaxStatic) ELSE @]
                 ELSE job[j]]
    /\ sleepLeft' = IF loop = "sleep" THEN Max(sleepLeft - 1, 0) ELSE sleepLeft
    /\ UNCHANGED <<jobs, loop, cur, kind, loopRunning, wakeEvent, sMeta>>
    /\ UNCHANGED <<journal, handlers, history>>
    /\ UNCHANGED offstage

\* ------------------------------------------------- handle_smart_wait
\* The job object is built (context.started_at = now) and its row inserted.
Submit(j, t, to) ==
    /\ loop # "top"
    /\ hs[j] = "new"
    /\ job' = [job EXCEPT ![j] = [NoObject EXCEPT !.status = "watching", !.task = t,
                                                  !.timeout = to]]
    /\ row' = [row EXCEPT ![j] = [status |-> "watching", result |-> "none", task |-> t]]
    /\ hs' = [hs EXCEPT ![j] = "inserted"]
    /\ UNCHANGED <<engine, active, shots, wakes, hc, hMeta, cMeta, history>>
    /\ UNCHANGED offstage

\* WaitEngine.add_job, called when the insert has returned: the loop task
\* is created unless one exists that is not done.
LoopAfterAdd == IF loop = "none" THEN "created" ELSE loop

SubmitAdd(j) ==
    /\ loop # "top"
    /\ hs[j] = "inserted"
    /\ jobs' = jobs \cup {j}
    /\ wakeEvent' = TRUE
    /\ loop' = LoopAfterAdd
    /\ hs' = [hs EXCEPT ![j] = IF job[j].task # NoTask THEN "linking" ELSE "done"]
    /\ UNCHANGED <<job, cur, kind, loopRunning, sleepLeft, sMeta, journal, hc, hMeta,
                   cMeta, history>>
    /\ UNCHANGED offstage

\* on_wait_created: _get_task and _load_metadata.
LinkRead(j) ==
    /\ loop # "top"
    /\ hs[j] = "linking"
    /\ hMeta' = [hMeta EXCEPT ![j] = active[job[j].task]]
    /\ hs' = [hs EXCEPT ![j] = "linkread"]
    /\ UNCHANGED <<job, engine, journal, hc, cMeta, history>>
    /\ UNCHANGED offstage

\* on_wait_created: the ids written by UPDATE tasks SET metadata.
CreatedIds(meta, j) == meta \cup {j}

LinkWrite(j) ==
    /\ loop # "top"
    /\ hs[j] = "linkread"
    /\ active' = [active EXCEPT ![job[j].task] = CreatedIds(hMeta[j], j)]
    /\ hMeta' = [hMeta EXCEPT ![j] = {}]
    /\ hs' = [hs EXCEPT ![j] = "done"]
    /\ UNCHANGED <<job, engine, row, shots, wakes, hc, cMeta, history>>
    /\ UNCHANGED offstage

\* ------------------------------------------------- handle_wait_update
\* An update that restarts elapsed whether or not it carries a timeout.
NewDeadlineAlways(o, to) == [o EXCEPT !.timeout = IF to = 0 THEN @ ELSE to, !.age = 0]

\* if args.get("timeout"): job.timeout = ...; job.context.started_at = now
NewDeadline(o, to) == IF to = 0 THEN o ELSE [o EXCEPT !.timeout = to, !.age = 0]

Update(j, c, to) ==
    /\ loop # "top"
    /\ j \in jobs
    /\ job' = [job EXCEPT ![j] = [NewDeadline(@, to) EXCEPT
                                    !.criteria = IF c = NoChange THEN @ ELSE c,
                                    !.gate = FALSE,
                                    !.poller = "new",
                                    !.due = Epoch]]
    /\ UNCHANGED <<engine, journal, handlers, history>>
    /\ UNCHANGED offstage

\* ------------------------------------------------- handle_wait_cancel
\* WaitEngine.cancel_job: the map after the call.
CancelPop(js, j) == js \ {j}

\* WaitEngine.cancel_job: the object after the call.
CancelStamp(o) == [o EXCEPT !.status = "cancelled", !.result = "reason"]

\* cancel_job looking the id up among the jobs ever built instead of in the map.
CancelHitAnyRecord(j) == job[j].status # "none"

\* WaitEngine.cancel_job finds the id in the map; otherwise it returns None
\* and the handler answers 404.
CancelHit(j) == j \in jobs

Cancel(j) ==
    /\ loop # "top"
    /\ IF CancelHit(j)
       THEN /\ jobs' = CancelPop(jobs, j)
            /\ job' = [job EXCEPT ![j] = IF cur = j THEN CancelStamp(@)
                                                    ELSE Gone(CancelStamp(@))]
            /\ hc' = [hc EXCEPT ![j] = "update"]
       ELSE UNCHANGED <<jobs, job, hc>>
    /\ UNCHANGED <<loop, cur, kind, loopRunning, wakeEvent, sleepLeft, sMeta, journal,
                   hs, hMeta, cMeta, history>>
    /\ UNCHANGED offstage

\* UPDATE wait_jobs SET status = 'cancelled', result_message = reason.
CancelRow(j) ==
    /\ loop # "top"
    /\ hc[j] = "update"
    /\ row' = [row EXCEPT ![j] = [@ EXCEPT !.status = "cancelled", !.result = "reason"]]
    /\ hc' = [hc EXCEPT ![j] = IF job[j].task # NoTask THEN "read" ELSE "done"]
    /\ UNCHANGED <<job, engine, active, shots, wakes, hs, hMeta, cMeta, history>>
    /\ UNCHANGED offstage

\* on_wait_finished(state = "cancelled"): the read, then the write.
CancelRead(j) ==
    /\ loop # "top"
    /\ hc[j] = "read"
    /\ cMeta' = [cMeta EXCEPT ![j] = active[job[j].task]]
    /\ hc' = [hc EXCEPT ![j] = "write"]
    /\ UNCHANGED <<job, engine, journal, hs, hMeta, history>>
    /\ UNCHANGED offstage

\* on_wait_finished: the ids written by UPDATE tasks SET metadata.
FinishedIds(meta, j) == meta \ {j}

CancelWrite(j) ==
    /\ loop # "top"
    /\ hc[j] = "write"
    /\ active' = [active EXCEPT ![job[j].task] = FinishedIds(cMeta[j], j)]
    /\ cMeta' = [cMeta EXCEPT ![j] = {}]
    /\ hc' = [hc EXCEPT ![j] = "done"]
    /\ UNCHANGED <<job, engine, row, shots, wakes, hs, hMeta, history>>
    /\ UNCHANGED offstage

\* ------------------------------------------------- WaitEngine._run_loop
\* min(self.jobs.values(), key = next_check_at); equal keys: either job.
IsNextJob(j) == j \in jobs /\ \A k \in jobs : job[j].due <= job[k].due

\* The timeout test letting one more tick pass.
TimedOutLate(elapsed, to) == elapsed > to + 1

\* The timeout test at the top of an evaluation.
TimedOut(elapsed, to) == elapsed > to

\* now - _last_vision_at, or now - started_at before the first vision call.
SinceLastVision(j) == IF job[j].hasFrame THEN job[j].still ELSE job[j].age

\* The forced re-evaluation of a static screen left out.
RecentVisionAlways(j) == TRUE

\* since_last_vision < config.MAX_STATIC_SECONDS
RecentVision(j) == SinceLastVision(j) < MaxStatic

\* The task created by add_job starts running _run_loop.
LoopStart ==
    /\ loop = "created"
    /\ IF loopRunning
       THEN loop' = "none" /\ UNCHANGED loopRunning
       ELSE loop' = "top" /\ loopRunning' = TRUE
    /\ UNCHANGED <<job, jobs, cur, kind, wakeEvent, sleepLeft, sMeta, journal, handlers,
                   history>>
    /\ UNCHANGED offstage

\* while self.jobs: the map is empty, the loop ends.
LoopExit ==
    /\ loop = "top"
    /\ jobs = {}
    /\ loop' = "none"
    /\ loopRunning' = FALSE
    /\ UNCHANGED <<job, jobs, cur, kind, wakeEvent, sleepLeft, sMeta, journal, handlers,
                   history>>
    /\ UNCHANGED offstage

\* No job is due: clear the wake event and wait for it, at most until the
\* earliest next_check_at.
LoopSleep(j) ==
    /\ loop = "top"
    /\ IsNextJob(j)
    /\ job[j].due > 0
    /\ wakeEvent' = FALSE
    /\ sleepLeft' = job[j].due
    /\ loop' = "sleep"
    /\ UNCHANGED <<job, jobs, cur, kind, loopRunning, sMeta, journal, handlers, history>>
    /\ UNCHANGED offstage

\* wait_for returns: the event was set, or the timeout ran out.
LoopWake ==
    /\ loop = "sleep"
    /\ wakeEvent \/ sleepLeft = 0
    /\ loop' = "top"
    /\ UNCHANGED <<job, jobs, cur, kind, loopRunning, wakeEvent, sleepLeft, sMeta,
                   journal, handlers, history>>
    /\ UNCHANGED offstage

\* An evaluation started while another one is suspended in its vision call.
EvalHeadOverlapped(j) == loop \in {"top", "vision"} /\ IsNextJob(j) /\ job[j].due <= 0

\* The head of an evaluation: the job picked is due.
EvalHead(j) == loop = "top" /\ IsNextJob(j) /\ job[j].due <= 0

\* _timeout_job up to its first await.
EvalTimeout(j) ==
    /\ EvalHead(j)
    /\ TimedOut(job[j].age, job[j].timeout)
    /\ job' = [job EXCEPT ![j].status = "timeout", ![j].result = "timeoutmsg"]
    /\ jobs' = jobs \ {j}
    /\ loop' = "persist"
    /\ cur' = j
    /\ kind' = "timeout"
    /\ UNCHANGED <<loopRunning, wakeEvent, sleepLeft, sMeta, journal, handlers, history>>
    /\ UNCHANGED offstage

\* _capture returns None: reschedule, next iteration.
EvalMiss(j, iv) ==
    /\ EvalHead(j)
    /\ ~TimedOut(job[j].age, job[j].timeout)
    /\ job' = [job EXCEPT ![j].due = iv]
    /\ evaluated' = [evaluated EXCEPT ![j] = TRUE]
    /\ UNCHANGED lookup
    /\ UNCHANGED <<engine, journal, handlers>>
    /\ UNCHANGED offstage

\* The diff gate says no change and the last vision call is recent:
\* reschedule, next iteration.
EvalStatic(j, iv) ==
    /\ EvalHead(j)
    /\ ~TimedOut(job[j].age, job[j].timeout)
    /\ job[j].gate
    /\ RecentVision(j)
    /\ job' = [job EXCEPT ![j].due = iv, ![j].poller = "on_no_change"]
    /\ evaluated' = [evaluated EXCEPT ![j] = TRUE]
    /\ UNCHANGED lookup
    /\ UNCHANGED <<engine, journal, handlers>>
    /\ UNCHANGED offstage

\* The frame passes the gate (first frame, changed frame, or static for
\* MaxStatic): add_frame, _last_vision_at = now, await evaluate_condition.
EvalVision(j, changed) ==
    /\ EvalHead(j)
    /\ ~TimedOut(job[j].age, job[j].timeout)
    /\ ~job[j].gate \/ changed \/ ~RecentVision(j)
    /\ job' = [job EXCEPT ![j].gate = TRUE, ![j].hasFrame = TRUE, ![j].still = 0]
    /\ evaluated' = [evaluated EXCEPT ![j] = TRUE]
    /\ UNCHANGED lookup
    /\ loop' = "vision"
    /\ cur' = j
    /\ UNCHANGED <<jobs, kind, loopRunning, wakeEvent, sleepLeft, sMeta, journal,
                   handlers>>
    /\ UNCHANGED offstage

\* A reschedule that stores the job in the map again.
RescheduleReinserts(js, j) == js \cup {j}

\* The reschedule that ends an iteration (next_check_at = now + interval):
\* it writes the object and leaves the map alone.
Reschedule(js, j) == js

\* The promotion test passing one partial verdict early.
PromotesEarly(streak) == streak + 1 >= PARTIAL_STREAK_RESOLVE

\* The promotion test on the streak after a partial verdict was counted.
Promotes(streak) == streak >= PARTIAL_STREAK_RESOLVE

\* f"[promoted from {streak}x PARTIAL] {desc}"
PromoteDesc(streak) ==
    CASE streak = 1 -> "[promoted from 1x PARTIAL] desc"
      [] streak = 2 -> "[promoted from 2x PARTIAL] desc"
      [] streak = 3 -> "[promoted from 3x PARTIAL] desc"
      [] OTHER -> "[promoted from Nx PARTIAL] desc"

\* The poller method called for a verdict that does not resolve the job; the
\* except clause of the loop calls on_change_no_match too.
PollerCall(v) == IF v = "partial" THEN "on_partial" ELSE "on_change_no_match"

\* _resolve_job's del taking a job that is gone from the map for deleted.
DeletedAlways(j) == TRUE

\* del self.jobs[job.id] in _resolve_job: KeyError unless the id is in the
\* map.
Deleted(j) == j \in jobs

\* evaluate_condition returns (or raises: v = "error") and the verdict is
\* acted on, up to the next await.  _resolve_job stores the status and then
\* its del raises KeyError when the job is no longer in the map; the except
\* clause of the loop takes it and the iteration ends with the reschedule.
VisionReturn(v, iv) ==
    /\ loop = "vision"
    /\ LET j == cur
           n == IF v = "partial" THEN job[j].streak + 1 ELSE 0
           resolving == v = "resolved" \/ (v = "partial" /\ Promotes(n))
           desc == IF v = "resolved" THEN "desc" ELSE PromoteDesc(n)
           o1 == IF v = "error" THEN job[j] ELSE [job[j] EXCEPT !.streak = n]
           o2 == IF resolving THEN [o1 EXCEPT !.status = "resolved", !.result = desc]
                 ELSE [o1 EXCEPT !.poller = PollerCall(v)]
       IN IF resolving /\ Deleted(j)
          THEN /\ job' = [job EXCEPT ![j] = o2]
               /\ jobs' = jobs \ {j}
               /\ loop' = "persist"
               /\ kind' = "resolved"
               /\ UNCHANGED cur
          ELSE /\ job' = [job EXCEPT ![j] = IF j \in jobs THEN [o2 EXCEPT !.due = iv]
                                                          ELSE Gone(o2)]
               /\ jobs' = Reschedule(jobs, j)
               /\ loop' = "top"
               /\ cur' = NoJob
               /\ UNCHANGED kind
    /\ UNCHANGED <<loopRunning, wakeEvent, sleepLeft, sMeta, journal, handlers, history>>
    /\ UNCHANGED offstage

\* The terminal row left unwritten.
PersistRowSkipped(r, state, msg) == r

\* _persist_wait_terminal's UPDATE.
PersistRow(r, state, msg) == [r EXCEPT !.status = state, !.result = msg]

\* _save_last_frame writing nothing.
SaveLastFrameNever(j) == shots

\* _save_last_frame(job, "after"), called for a job linked to a task: the
\* files after the call.
SaveLastFrame(j) == IF job[j].hasFrame THEN shots \cup {j} ELSE shots

\* The text handed to _inject_system_event.
WakeText(k, j) ==
    [kind |-> k, job |-> j, criteria |-> job[j].criteria, desc |-> job[j].result]

\* How subprocess.run of the OpenClaw CLI ends: exit status 0, another exit
\* status, TimeoutExpired after 10 s, or an OSError when the CLI cannot be
\* started.
Emissions == {"ok", "nonzero", "timeout", "spawn"}

\* _inject_system_event without its except clause.
PropagatesRaised(out) == out \in {"timeout", "spawn"}

\* _inject_system_event raises: never, its except Exception catches what
\* subprocess.run raises.
Propagates(out) == FALSE

\* Where _run_loop is after the terminal handling of a job of kind k: back
\* at the top of its while loop, or ended by what _timeout_job raised (an
\* exception out of _resolve_job is caught by the loop's own except clause).
AfterEmission(out, k) == IF Propagates(out) /\ k = "timeout" THEN "none" ELSE "top"

\* _persist_wait_terminal; then, for a job with no task, the wake event and
\* the end of the iteration.
PersistTerminal(out) ==
    /\ loop = "persist"
    /\ row' = [row EXCEPT ![cur] = PersistRow(@, kind, job[cur].result)]
    /\ IF job[cur].task # NoTask
       THEN /\ shots' = SaveLastFrame(cur)
            /\ loop' = "hookread"
            /\ UNCHANGED <<job, wakes, cur, kind, emitted>>
       ELSE /\ wakes' = [wakes EXCEPT ![cur] = Append(@, WakeText(kind, cur))]
            /\ emitted' = out
            /\ job' = [job EXCEPT ![cur] = Gone(@)]
            /\ loop' = AfterEmission(out, kind)
            /\ cur' = NoJob
            /\ kind' = "none"
            /\ UNCHANGED shots
    /\ UNCHANGED <<jobs, loopRunning, wakeEvent, sleepLeft, sMeta, active, handlers,
                   history>>
    /\ UNCHANGED <<capture, backstage>>

\* on_wait_finished called by the scheduler: the read.
HookRead ==
    /\ loop = "hookread"
    /\ sMeta' = active[job[cur].task]
    /\ loop' = "hookwrite"
    /\ UNCHANGED <<job, jobs, cur, kind, loopRunning, wakeEvent, sleepLeft, journal,
                   handlers, history>>
    /\ UNCHANGED offstage

\* on_wait_finished called by the scheduler: the write; then the wake event
\* and the end of the iteration.
HookWrite(out) ==
    /\ loop = "hookwrite"
    /\ active' = [active EXCEPT ![job[cur].task] = FinishedIds(sMeta, cur)]
    /\ sMeta' = {}
    /\ wakes' = [wakes EXCEPT ![cur] = Append(@, WakeText(kind, cur))]
    /\ emitted' = out
    /\ job' = [job EXCEPT ![cur] = Gone(@)]
    /\ loop' = AfterEmission(out, kind)
    /\ cur' = NoJob
    /\ kind' = "none"
    /\ UNCHANGED <<jobs, loopRunning, wakeEvent, sleepLeft, row, shots, handlers, history>>
    /\ UNCHANGED <<capture, backstage>>

\* The task ids a submit request may carry: j1 with or without a task, j2
\* without one.
TasksOf(j) == IF j = "j1" THEN Tasks \cup {NoTask} ELSE {NoTask}

\* The ids wait-update requests name.
Updatable == {"j1"}

Next ==
    \/ Tick
    \/ \E j \in Jobs : \E t \in TasksOf(j), to \in Timeouts : Submit(j, t, to)
    \/ \E j \in Jobs : SubmitAdd(j)
    \/ \E j \in Jobs : LinkRead(j)
    \/ \E j \in Jobs : LinkWrite(j)
    \/ \E j \in Updatable, c \in {NoChange, "c1"}, to \in {0} \cup Timeouts : Update(j, c, to)
    \/ \E j \in Jobs : Cancel(j)
    \/ \E j \in Jobs : CancelRow(j)
    \/ \E j \in Jobs : CancelRead(j)
    \/ \E j \in Jobs : CancelWrite(j)
    \/ LoopStart
    \/ LoopExit
    \/ \E j \in Jobs : LoopSleep(j)
    \/ LoopWake
    \/ \E j \in Jobs : EvalTimeout(j)
    \/ \E j \in Jobs, iv \in Intervals : EvalMiss(j, iv)
    \/ \E j \in Jobs, iv \in Intervals : EvalStatic(j, iv)
    \/ \E j \in Jobs, ch \in BOOLEAN : EvalVision(j, ch)
    \/ \E v \in Verdicts, iv \in Intervals : VisionReturn(v, iv)
    \/ PersistTerminal("ok")
    \/ HookRead
    \/ HookWrite("ok")

Spec == Init /\ [][Next]_vars

\* ------------------------------------------- one job with a long timeout
\* A timeout that outlasts MAX_STATIC_SECONDS (config: 300 s against 30 s).
LongTimeout == MaxStatic + 1

SoloNext ==
    \/ Tick
    \/ \E t \in TasksOf("j1") : Submit("j1", t, LongTimeout)
    \/ SubmitAdd("j1")
    \/ LinkRead("j1")
    \/ LinkWrite("j1")
    \/ \E c \in {NoChange, "c1"}, to \in {0, LongTimeout} : Update("j1", c, to)
    \/ Cancel("j1")
    \/ CancelRow("j1")
    \/ CancelRead("j1")
    \/ CancelWrite("j1")
    \/ LoopStart
    \/ LoopExit
    \/ LoopSleep("j1")
    \/ LoopWake
    \/ EvalTimeout("j1")
    \/ \E iv \in Intervals : EvalMiss("j1", iv)
    \/ \E iv \in Intervals : EvalStatic("j1", iv)
    \/ \E ch \in BOOLEAN : EvalVision("j1", ch)
    \/ \E v \in Verdicts, iv \in Intervals : VisionReturn(v, iv)
    \/ PersistTerminal("ok")
    \/ HookRead
    \/ HookWrite("ok")

SoloSpec == Init /\ [][SoloNext]_vars

\* The engine with its two jobs, no wait-update and no cancel request, and
\* the wake emission ending in each of its ways.
WakeNext ==
    \/ Tick
    \/ \E j \in Jobs : \E t \in TasksOf(j), to \in Timeouts : Submit(j, t, to)
    \/ \E j \in Jobs : SubmitAdd(j)
    \/ \E j \in Jobs : LinkRead(j)
    \/ \E j \in Jobs : LinkWrite(j)
    \/ LoopStart
    \/ LoopExit
    \/ \E j \in Jobs : LoopSleep(j)
    \/ LoopWake
    \/ \E j \in Jobs : EvalTimeout(j)
    \/ \E j \in Jobs, iv \in Intervals : EvalMiss(j, iv)
    \/ \E j \in Jobs, iv \in Intervals : EvalStatic(j, iv)
    \/ \E j \in Jobs, ch \in BOOLEAN : EvalVision(j, ch)
    \/ \E v \in Verdicts, iv \in Intervals : VisionReturn(v, iv)
    \/ \E out \in Emissions : PersistTerminal(out)
    \/ HookRead
    \/ \E out \in Emissions : HookWrite(out)

WakeSpec == Init /\ [][WakeNext]_vars

\* ------------------------------------------- exceptions in _run_loop
\* Where _run_loop is after _persist_wait_terminal raised in the terminal
\* handling of a job of kind k.  _timeout_job is awaited outside the loop's
\* try block: what it raises ends the task, with _loop_running left as it
\* is.  _resolve_job is awaited inside it: the except clause takes what it
\* raises and the iteration ends with the reschedule.
AfterRaise(k) == IF k = "timeout" THEN "none" ELSE "top"

\* conn.execute or conn.commit of _persist_wait_terminal raises (the journal
\* is locked or cannot be written): the rest of _resolve_job / _timeout_job
\* is skipped, the job is already out of the map.
PersistRaises ==
    /\ loop = "persist"
    /\ job' = [job EXCEPT ![cur] = Gone(@)]
    /\ loop' = AfterRaise(kind)
    /\ cur' = NoJob
    /\ kind' = "none"
    /\ UNCHANGED <<jobs, loopRunning, wakeEvent, sleepLeft, sMeta, journal, handlers,
                   history>>
    /\ UNCHANGED offstage

\* _capture raises: find_window_by_name catches TimeoutExpired and
\* ValueError only, so the OSError of a missing xdotool leaves _run_loop,
\* which has no try block around the call.  The task is done, the job stays
\* in the map and _loop_running stays set.
CaptureRaises(j) ==
    /\ EvalHead(j)
    /\ ~TimedOut(job[j].age, job[j].timeout)
    /\ loop' = "none"
    /\ evaluated' = [evaluated EXCEPT ![j] = TRUE]
    /\ UNCHANGED lookup
    /\ UNCHANGED <<job, jobs, cur, kind, loopRunning, wakeEvent, sleepLeft, sMeta, journal,
                   handlers>>
    /\ UNCHANGED offstage

\* The engine with its two jobs, no wait-update and no cancel request, and
\* the journal write and the window lookup failing.
FaultNext ==
    \/ Tick
    \/ \E j \in Jobs : \E t \in TasksOf(j), to \in Timeouts : Submit(j, t, to)
    \/ \E j \in Jobs : SubmitAdd(j)
    \/ \E j \in Jobs : LinkRead(j)
    \/ \E j \in Jobs : LinkWrite(j)
    \/ LoopStart
    \/ LoopExit
    \/ \E j \in Jobs : LoopSleep(j)
    \/ LoopWake
    \/ \E j \in Jobs : EvalTimeout(j)
    \/ \E j \in Jobs, iv \in Intervals : EvalMiss(j, iv)
    \/ \E j \in Jobs, iv \in Intervals : EvalStatic(j, iv)
    \/ \E j \in Jobs, ch \in BOOLEAN : EvalVision(j, ch)
    \/ \E v \in Verdicts, iv \in Intervals : VisionReturn(v, iv)
    \/ PersistTerminal("ok")
    \/ PersistRaises
    \/ \E j \in Jobs : CaptureRaises(j)
    \/ HookRead
    \/ HookWrite("ok")

FaultSpec == Init /\ [][FaultNext]_vars

\* The engine with both jobs linked to the task, no wait-update and no
\* cancel request.
LinkNext ==
    \/ Tick
    \/ \E j \in Jobs, t \in Tasks, to \in Timeouts : Submit(j, t, to)
    \/ \E j \in Jobs : SubmitAdd(j)
    \/ \E j \in Jobs : LinkRead(j)
    \/ \E j \in Jobs : LinkWrite(j)
    \/ LoopStart
    \/ LoopExit
    \/ \E j \in Jobs : LoopSleep(j)
    \/ LoopWake
    \/ \E j \in Jobs : EvalTimeout(j)
    \/ \E j \in Jobs, iv \in Intervals : EvalMiss(j, iv)
    \/ \E j \in Jobs, iv \in Intervals : EvalStatic(j, iv)
    \/ \E j \in Jobs, ch \in BOOLEAN : EvalVision(j, ch)
    \/ \E v \in Verdicts, iv \in Intervals : VisionReturn(v, iv)
    \/ PersistTerminal("ok")
    \/ HookRead
    \/ HookWrite("ok")

LinkSpec == Init /\ [][LinkNext]_vars

\* ------------------------------------- _capture of a window given by name
\* The jobs whose target is window:<name>; the others watch the screen.
WindowJobs == {"j1"}

\* _capture resolving the name on the job's first capture only.
LooksOnce(j) == ~resolved_window_id[j] /\ ~evaluated[j]

\* if job._resolved_window_id is None: the call goes to find_window_by_name.
Looks(j) == ~resolved_window_id[j]

\* job._resolved_window_id is set after the lookup, which found the window
\* or did not.
ResolvedAfter(j, found) == resolved_window_id[j] \/ (Looks(j) /\ found)

\* What _capture leaves on the job.
WindowLookup(j, found) ==
    /\ resolved_window_id' = [resolved_window_id EXCEPT ![j] = ResolvedAfter(j, found)]
    /\ looked' = [looked EXCEPT ![j] = Looks(j)]

\* _capture returns None: the window was not found, or capture_window
\* failed.  Reschedule, next iteration.
WindowMiss(j, iv, found) ==
    /\ j \in WindowJobs
    /\ EvalHead(j)
    /\ ~TimedOut(job[j].age, job[j].timeout)
    /\ job' = [job EXCEPT ![j].due = iv]
    /\ evaluated' = [evaluated EXCEPT ![j] = TRUE]
    /\ WindowLookup(j, found)
    /\ UNCHANGED <<engine, journal, handlers>>
    /\ UNCHANGED offstage

\* The window is captured, the diff gate says no change and the last vision
\* call is recent.
WindowStatic(j, iv, found) ==
    /\ j \in WindowJobs
    /\ EvalHead(j)
    /\ ~TimedOut(job[j].age, job[j].timeout)
    /\ ResolvedAfter(j, found)
    /\ job[j].gate
    /\ RecentVision(j)
    /\ job' = [job EXCEPT ![j].due = iv, ![j].poller = "on_no_change"]
    /\ evaluated' = [evaluated EXCEPT ![j] = TRUE]
    /\ WindowLookup(j, found)
    /\ UNCHANGED <<engine, journal, handlers>>
    /\ UNCHANGED offstage

\* The window is captured and the frame passes the gate.
WindowVision(j, changed, found) ==
    /\ j \in WindowJobs
    /\ EvalHead(j)
    /\ ~TimedOut(job[j].age, job[j].timeout)
    /\ ResolvedAfter(j, found)
    /\ ~job[j].gate \/ changed \/ ~RecentVision(j)
    /\ job' = [job EXCEPT ![j].gate = TRUE, ![j].hasFrame = TRUE, ![j].still = 0]
    /\ evaluated' = [evaluated EXCEPT ![j] = TRUE]
    /\ WindowLookup(j, found)
    /\ loop' = "vision"
    /\ cur' = j
    /\ UNCHANGED <<jobs, kind, loopRunning, wakeEvent, sleepLeft, sMeta, journal,
                   handlers>>
    /\ UNCHANGED offstage

\* The engine with a window job and a screen job, no wait-update and no
\* cancel request.
LookupNext ==
    \/ Tick
    \/ \E j \in Jobs : \E t \in TasksOf(j), to \in Timeouts : Submit(j, t, to)
    \/ \E j \in Jobs : SubmitAdd(j)
    \/ \E j \in Jobs : LinkRead(j)
    \/ \E j \in Jobs : LinkWrite(j)
    \/ LoopStart
    \/ LoopExit
    \/ \E j \in Jobs : LoopSleep(j)
    \/ LoopWake
    \/ \E j \in Jobs : EvalTimeout(j)
    \/ \E j \in Jobs \ WindowJobs, iv \in Intervals : EvalMiss(j, iv)
    \/ \E j \in Jobs \ WindowJobs, iv \in Intervals : EvalStatic(j, iv)
    \/ \E j \in Jobs \ WindowJobs, ch \in BOOLEAN : EvalVision(j, ch)
    \/ \E j \in WindowJobs, iv \in Intervals, found \in BOOLEAN : WindowMiss(j, iv, found)
    \/ \E j \in WindowJobs, iv \in Intervals, found \in BOOLEAN : WindowStatic(j, iv, found)
    \/ \E j \in WindowJobs, ch \in BOOLEAN, found \in BOOLEAN : WindowVision(j, ch, found)
    \/ \E v \in Verdicts, iv \in Intervals : VisionReturn(v, iv)
    \/ PersistTerminal("ok")
    \/ HookRead
    \/ HookWrite("ok")

LookupSpec == Init /\ [][LookupNext]_vars

\* ------------------------------------------------ capture/screen.py
\* The work of the scheduler, the handlers and the journal is left alone by
\* a capturing thread.
scheduling == <<job, engine, journal, handlers, history, emitted>>

\* display = display or config.DISPLAY
DisplayOrDefault(d) == IF d = NoDisplay THEN ConfigDisplay ELSE d

\* capture_screen / capture_window is called on thread t.
CaptureCall(t, d) ==
    /\ pc[t] = "idle"
    /\ disp' = [disp EXCEPT ![t] = DisplayOrDefault(d)]
    /\ pc' = [pc EXCEPT ![t] = "lock_mu"]
    /\ UNCHANGED <<xlib_locks, xlib_locks_mu, held, got, scheduling, backstage>>

\* _get_xlib_lock without its mutex.
MuAlwaysAvailable == TRUE

\* with _xlib_locks_mu: the mutex can be taken.
MuAvailable == xlib_locks_mu = NoThread

MuAcquire(t) ==
    /\ pc[t] = "lock_mu"
    /\ MuAvailable
    /\ xlib_locks_mu' = t
    /\ pc' = [pc EXCEPT ![t] = "check"]
    /\ UNCHANGED <<xlib_locks, held, disp, got, scheduling, backstage>>

\* if display not in _xlib_locks
LockCheck(t) ==
    /\ pc[t] = "check"
    /\ pc' = [pc EXCEPT ![t] = IF xlib_locks[disp[t]] = NoLock THEN "create" ELSE "fetch"]
    /\ UNCHANGED <<xlib_locks, xlib_locks_mu, held, disp, got, scheduling, backstage>>

\* _xlib_locks[display] = threading.Lock(): a new object, named after the
\* display and the thread that made it.
LockCreate(t) ==
    /\ pc[t] = "create"
    /\ xlib_locks' = [xlib_locks EXCEPT ![disp[t]] = <<disp[t], t>>]
    /\ pc' = [pc EXCEPT ![t] = "fetch"]
    /\ UNCHANGED <<xlib_locks_mu, held, disp, got, scheduling, backstage>>

\* return _xlib_locks[display], leaving the with block.
LockReturn(t) ==
    /\ pc[t] = "fetch"
    /\ got' = [got EXCEPT ![t] = xlib_locks[disp[t]]]
    /\ xlib_locks_mu' = IF xlib_locks_mu = t THEN NoThread ELSE xlib_locks_mu
    /\ pc' = [pc EXCEPT ![t] = "acquire"]
    /\ UNCHANGED <<xlib_locks, held, disp, scheduling, backstage>>

\* with _get_xlib_lock(display): blocks while the Lock is locked.
LockAcquire(t) ==
    /\ pc[t] = "acquire"
    /\ got[t] \notin held
    /\ held' = held \cup {got[t]}
    /\ pc' = [pc EXCEPT ![t] = "cs"]
    /\ UNCHANGED <<xlib_locks, xlib_locks_mu, disp, got, scheduling, backstage>>

\* get_xlib_display and _x11_capture have run (or raised): the with block
\* is left and the Lock released.
CaptureDone(t) ==
    /\ pc[t] = "cs"
    /\ held' = held \ {got[t]}
    /\ got' = [got EXCEPT ![t] = NoLock]
    /\ pc' = [pc EXCEPT ![t] = "idle"]
    /\ UNCHANGED <<xlib_locks, xlib_locks_mu, disp, scheduling, backstage>>

CaptureNext ==
    \/ \E t \in Threads, d \in Displays \cup {NoDisplay} : CaptureCall(t, d)
    \/ \E t \in Threads : MuAcquire(t)
    \/ \E t \in Threads : LockCheck(t)
    \/ \E t \in Threads : LockCreate(t)
    \/ \E t \in Threads : LockReturn(t)
    \/ \E t \in Threads : LockAcquire(t)
    \/ \E t \in Threads : CaptureDone(t)

CaptureSpec == Init /\ [][CaptureNext]_vars

\* --------------------------------------------------- display/manager.py
\* allocate_display, release_display and cleanup_all run on the event loop
\* without an await: each call is one step.
offdisplay == <<scheduling, capture, tasking, library>>

\* used = {info.display_num for info in _displays.values()}
UsedNums == {displays[t].display_num : t \in {x \in DisplayTasks : displays[x] # NoInfo}}

\* The scan taking a number whatever the host's lock files say.
FindFreeIgnoringHost ==
    LET free == {n \in DisplayNums : n \notin UsedNums}
    IN IF free = {} THEN NoNum ELSE CHOOSE n \in free : \A k \in free : n <= k

\* _find_free_display_num: the first number from 100 on that is neither
\* recorded nor has a lock file; NoNum stands for the RuntimeError.
FindFreeDisplayNum ==
    LET free == {n \in DisplayNums : n \notin UsedNums /\ n \notin xlocks}
    IN IF free = {} THEN NoNum ELSE CHOOSE n \in free : \A k \in free : n <= k

\* allocate_display looking nothing up.
AllocatedNever(t) == FALSE

\* if task_id in _displays
Allocated(t) == displays[t] # NoInfo

\* What allocate_display raises.
RuntimeError == [NoInfo EXCEPT !.task_id = "RuntimeError"]

\* allocate_display(task_id): what it returns (or raises) and what it leaves
\* in _displays, in the lock files and in the count of processes started;
\* alive: the Xvfb started is running after 0.3 s.
Allocation(t, alive) ==
    LET kept == [ret |-> RuntimeError, ds |-> displays, locks |-> xlocks, procs |-> started]
        num == FindFreeDisplayNum
        info == [task_id |-> t, display_num |-> num, process |-> started + 1]
    IN IF Allocated(t) THEN [kept EXCEPT !.ret = displays[t]]
       ELSE IF num = NoNum THEN kept
       ELSE IF ~alive THEN [kept EXCEPT !.procs = started + 1]
       ELSE [ret |-> info, ds |-> [displays EXCEPT ![t] = info],
             locks |-> xlocks \cup {num}, procs |-> started + 1]

\* A call of allocate_display on its own.
Allocate(t, alive) ==
    /\ calls < MaxCalls
    /\ calls' = calls + 1
    /\ last' = Allocation(t, alive).ret
    /\ displays' = Allocation(t, alive).ds
    /\ xlocks' = Allocation(t, alive).locks
    /\ started' = Allocation(t, alive).procs
    /\ UNCHANGED offdisplay

\* release_display's effect on _displays and on the lock files; the Xvfb
\* terminated removes its lock file, the one killed may leave it.
Released(ts, clean) ==
    [ds |-> [t \in DisplayTasks |-> IF t \in ts THEN NoInfo ELSE displays[t]],
     locks |-> IF clean THEN xlocks \ {displays[t].display_num : t \in ts} ELSE xlocks]

\* release_display(task_id)
Release(t, clean) ==
    /\ displays' = Released({t}, clean).ds
    /\ xlocks' = Released({t}, clean).locks
    /\ UNCHANGED <<started, calls, last>>
    /\ UNCHANGED offdisplay

\* cleanup_all: release_display for every task id recorded.
CleanupAll(clean) ==
    /\ displays' = Released(DisplayTasks, clean).ds
    /\ xlocks' = Released(DisplayTasks, clean).locks
    /\ UNCHANGED <<started, calls, last>>
    /\ UNCHANGED offdisplay

\* Another X server of the host takes or leaves a display number.
HostLock(n) ==
    /\ n \notin UsedNums
    /\ xlocks' = IF n \in xlocks THEN xlocks \ {n} ELSE xlocks \cup {n}
    /\ UNCHANGED <<displays, started, calls, last>>
    /\ UNCHANGED offdisplay

DisplayNext ==
    \/ \E t \in DisplayTasks, alive \in BOOLEAN : Allocate(t, alive)
    \/ \E t \in DisplayTasks, clean \in BOOLEAN : Release(t, clean)
    \/ \E clean \in BOOLEAN : CleanupAll(clean)
    \/ \E n \in DisplayNums : HostLock(n)

DisplaySpec == Init /\ [][DisplayNext]_vars

\* ------------------------------------------------------ task/manager.py
\* A database round trip is short against ClockStep: the clock moves only
\* while no call of the task manager is between its read and its write.
offtask == <<scheduling, capture, displaying, library>>

\* str(status).strip().lower(), on the status strings requests carry.
StripLower(s) == IF s = " FAILED " THEN "failed" ELSE s

\* _normalize_status accepting any string.
NormalizeUnchecked(status) ==
    LET s == StripLower(status) IN IF s = "canceled" THEN "cancelled" ELSE s

\* _normalize_status; "ValueError" stands for the exception.
NormalizeStatus(status) ==
    LET s == StripLower(status)
        c == IF s = "canceled" THEN "cancelled" ELSE s
    IN IF c \in VALID_STATUSES THEN c ELSE "ValueError"

\* The status and message fields update_task requests carry.
StatusArgs == {NoStatus, "active", "paused", "completed", "canceled", " FAILED ", "done"}

\* The ordinals of the items in status st, in ORDER BY ordinal.
RECURSIVE OrderedOrdinals(_)
OrderedOrdinals(rows) ==
    IF rows = {} THEN <<>>
    ELSE LET first == CHOOSE r \in rows : \A x \in rows : r.ordinal <= x.ordinal
         IN <<first.ordinal>> \o OrderedOrdinals(rows \ {first})

OrdinalsIn(items, st) == OrderedOrdinals({r \in items : r.status = st})

\* build_resume_packet's progress with the current item left out of remaining.
ProgressBesidesCurrent(items) ==
    LET actives == OrdinalsIn(items, "active")
        pending == OrdinalsIn(items, "pending")
        current == IF actives # <<>> THEN actives[1]
                   ELSE IF pending # <<>> THEN pending[1] ELSE NoOrdinal
    IN [completed |-> OrdinalsIn(items, "completed"),
        current |-> current,
        remaining |-> SelectSeq(pending, LAMBDA o : o # current)]

\* build_resume_packet: progress.completed, progress.current and
\* progress.remaining.
Progress(items) ==
    LET actives == OrdinalsIn(items, "active")
        remaining == OrdinalsIn(items, "pending")
        current == IF actives # <<>> THEN actives[1]
                   ELSE IF remaining # <<>> THEN remaining[1] ELSE NoOrdinal
    IN [completed |-> OrdinalsIn(items, "completed"),
        current |-> current,
        remaining |-> remaining]

\* _get_active_plan_item finds an item: the first active, else the first
\* pending one.
HasActiveItem(items) == Progress(items).current # NoOrdinal

Saturate(x, cap) == Min(x + ClockStep, cap)

\* ClockStep seconds pass.
TaskTick ==
    /\ stuck.pc = "idle"
    /\ \A w \in Waits : ow[w].pc = "idle"
    /\ \E t \in Tasks : tstatus[t] # "none"
    /\ idle' = [t \in Tasks |-> IF tstatus[t] = "none" THEN idle[t]
                                 ELSE Saturate(idle[t], IdleCap)]
    /\ tmeta' = [t \in Tasks |-> IF tstatus[t] = "none" THEN tmeta[t]
                                 ELSE [tmeta[t] EXCEPT !.alert_age = Saturate(@, AlertCap)]]
    /\ since_alert' = [t \in Tasks |-> IF tstatus[t] = "none" THEN since_alert[t]
                                        ELSE Saturate(since_alert[t], AlertCap)]
    /\ UNCHANGED <<tstatus, msgs, nactions, plan_items, tdisplay, reply, wait_jobs, ow,
                   stuck>>
    /\ UNCHANGED offtask

\* The plans a client submits: entries are step titles, some with blanks
\* around them, some blank.
Plans == {<<>>, <<"a", " b">>, <<"a", " ">>, <<" ">>}

\* The plan of the tasks TaskSpec registers.
TwoSteps == <<"a", " b">>

\* str(s).strip() of a plan entry.
StripTitle(s) == CASE s = " " -> "" [] s = " b" -> "b" [] OTHER -> s

\* register_task's plan after the blank entries are dropped.
Stripped(plan) ==
    SelectSeq([i \in 1..Len(plan) |-> StripTitle(plan[i])], LAMBDA s : s # "")

\* enumerate(plan) counting from one.
ItemOrdinalFromOne(i) == i

\* enumerate(plan): the ordinal of the i-th entry that is kept.
ItemOrdinal(i) == i - 1

\* The rows register_task inserts into plan_items.
PlanRows(plan) ==
    {[ordinal |-> ItemOrdinal(i), title |-> plan[i], status |-> "pending"] :
        i \in 1..Len(plan)}

DecimalDigits == <<"0", "1", "2", "3", "4", "5", "6", "7", "8", "9">>

\* str(n) of a natural number.
RECURSIVE Decimal(_)
Decimal(n) ==
    IF n < 10 THEN DecimalDigits[n + 1]
    ELSE Decimal(n \div 10) \o DecimalDigits[(n % 10) + 1]

\* DisplayInfo.display_str
DisplayStr(num) == ":" \o Decimal(num)

\* register_task keeping no display in the metadata when allocation fails.
MetaDisplayUnset(ret) ==
    IF ret = RuntimeError THEN NoDisplay ELSE DisplayStr(ret.display_num)

\* metadata["display"] as register_task sets it from allocate_display.
MetaDisplay(ret) ==
    IF ret = RuntimeError THEN ConfigDisplay ELSE DisplayStr(ret.display_num)

\* register_task(name, plan); alive: the Xvfb that allocate_display starts
\* is still running after its start-up wait.
RegisterTask(t, plan, alive) ==
    /\ tstatus[t] = "none"
    /\ IF plan = <<>>
       THEN UNCHANGED <<tstatus, idle, tmeta, plan_items, msgs, tdisplay, displaying>>
       ELSE LET a == Allocation(t, alive)
            IN /\ calls < MaxCalls
               /\ calls' = calls + 1
               /\ last' = a.ret
               /\ displays' = a.ds
               /\ xlocks' = a.locks
               /\ started' = a.procs
               /\ tstatus' = [tstatus EXCEPT ![t] = "active"]
               /\ idle' = [idle EXCEPT ![t] = 0]
               /\ tmeta' = [tmeta EXCEPT ![t] = [NoMeta EXCEPT !.display = MetaDisplay(a.ret)]]
               /\ plan_items' = [plan_items EXCEPT ![t] = PlanRows(Stripped(plan))]
               /\ msgs' = [msgs EXCEPT ![t] = <<"lifecycle">>]
               /\ tdisplay' = [tdisplay EXCEPT ![t] = a.ret # RuntimeError]
    /\ UNCHANGED <<nactions, reply, wait_jobs, ow, stuck, since_alert>>
    /\ UNCHANGED <<scheduling, capture, library>>

\* update_task writing its message before it looks at the status.
ValidatedLate(status) == TRUE

\* update_task: the status given passes _normalize_status (or none is given).
Validated(status) == status = NoStatus \/ NormalizeStatus(status) # "ValueError"

\* update_task: if normalized != task["status"]
StatusChanges(old, new) == new # old

\* update_task(task_id, message, status = s); m: a message is given.
UpdateTask(t, s, m) ==
    /\ tstatus[t] # "none"
    /\ IF ~Validated(s)
       THEN /\ reply' = "error"
            /\ UNCHANGED <<tstatus, idle, msgs, nactions, tdisplay, displays, xlocks>>
       ELSE LET new == IF s = NoStatus THEN tstatus[t] ELSE NormalizeUnchecked(s)
                changes == StatusChanges(tstatus[t], new)
                m1 == IF changes THEN Append(msgs[t], "lifecycle") ELSE msgs[t]
                m2 == IF m THEN Append(m1, "text") ELSE m1
                acts == IF m /\ HasActiveItem(plan_items[t]) THEN nactions[t] + 1
                        ELSE nactions[t]
            IN /\ Len(m2) <= MaxMsgs
               /\ tstatus' = [tstatus EXCEPT ![t] = new]
               /\ acts <= MaxActions
               /\ idle' = [idle EXCEPT ![t] = IF changes \/ m THEN 0 ELSE @]
               /\ msgs' = [msgs EXCEPT ![t] = m2]
               /\ nactions' = [nactions EXCEPT ![t] = acts]
               /\ tdisplay' = [tdisplay EXCEPT ![t] =
                                 IF changes /\ new \in TERMINAL_STATUSES THEN FALSE ELSE @]
               /\ IF changes /\ new \in TERMINAL_STATUSES
                  THEN \E clean \in BOOLEAN :
                          /\ displays' = Released({t}, clean).ds
                          /\ xlocks' = Released({t}, clean).locks
                  ELSE UNCHANGED <<displays, xlocks>>
               /\ reply' = new
    /\ UNCHANGED <<tmeta, plan_items, wait_jobs, ow, stuck, since_alert>>
    /\ UNCHANGED <<scheduling, capture, library, started, calls, last>>

\* update_plan_item(task_id, ordinal, status) with no note.
UpdatePlanItem(t, ordinal, st) ==
    /\ tstatus[t] # "none"
    /\ st \in VALID_ITEM_STATUSES
    /\ Len(msgs[t]) < MaxMsgs
    /\ \E item \in {r \in plan_items[t] : r.ordinal = ordinal} :
          plan_items' = [plan_items EXCEPT ![t] =
                           (@ \ {item}) \cup {[item EXCEPT !.status = st]}]
    /\ msgs' = [msgs EXCEPT ![t] = Append(@, "progress")]
    /\ idle' = [idle EXCEPT ![t] = 0]
    /\ UNCHANGED <<tstatus, tmeta, nactions, tdisplay, reply, wait_jobs, ow, stuck, since_alert>>
    /\ UNCHANGED offtask

\* handle_smart_wait: INSERT INTO wait_jobs ... 'watching'.
WaitInsert(w) ==
    /\ wait_jobs[w] = "none"
    /\ wait_jobs' = [wait_jobs EXCEPT ![w] = "watching"]
    /\ UNCHANGED <<tstatus, idle, tmeta, msgs, nactions, plan_items, tdisplay, reply, ow,
                   stuck, since_alert>>
    /\ UNCHANGED offtask

\* The terminal write of the row: resolved, timeout or cancelled.
WaitEnd(w, st) ==
    /\ wait_jobs[w] = "watching"
    /\ wait_jobs' = [wait_jobs EXCEPT ![w] = st]
    /\ UNCHANGED <<tstatus, idle, tmeta, msgs, nactions, plan_items, tdisplay, reply, ow,
                   stuck, since_alert>>
    /\ UNCHANGED offtask

\* on_wait_created (k = "created") or on_wait_finished (k = "finished"):
\* _get_task and _load_metadata.
OnWaitRead(w, t, k) ==
    /\ ow[w].pc = "idle"
    /\ tstatus[t] # "none"
    /\ k = "finished" => wait_jobs[w] \in Terminal
    /\ ow' = [ow EXCEPT ![w] = [pc |-> k, task |-> t, meta |-> tmeta[t]]]
    /\ UNCHANGED <<tstatus, idle, tmeta, msgs, nactions, plan_items, tdisplay, reply,
                   wait_jobs, stuck, since_alert>>
    /\ UNCHANGED offtask

\* on_wait_created / on_wait_finished: the metadata read is written back
\* with the id added or removed, updated_at = now, the wait action and the
\* message; commit.
OnWaitWrite(w) ==
    /\ ow[w].pc # "idle"
    /\ LET t == ow[w].task
           created == ow[w].pc = "created"
           ids == IF created THEN ow[w].meta.wait_ids \cup {w}
                  ELSE ow[w].meta.wait_ids \ {w}
           acts == IF created /\ HasActiveItem(plan_items[t]) THEN nactions[t] + 1
                   ELSE nactions[t]
       IN /\ Len(msgs[t]) < MaxMsgs
          /\ acts <= MaxActions
          /\ tmeta' = [tmeta EXCEPT ![t] = [ow[w].meta EXCEPT !.wait_ids = ids]]
          /\ idle' = [idle EXCEPT ![t] = 0]
          /\ msgs' = [msgs EXCEPT ![t] = Append(@, "wait")]
          /\ nactions' = [nactions EXCEPT ![t] = acts]
    /\ ow' = [ow EXCEPT ![w] = NoCall]
    /\ UNCHANGED <<tstatus, plan_items, tdisplay, reply, wait_jobs, stuck,
                   since_alert>>
    /\ UNCHANGED offtask

\* check_stuck_tasks: SELECT * FROM tasks WHERE status = 'active'.
StuckSelect ==
    /\ stuck.pc = "idle"
    /\ stuck' = [pc |-> "loop",
                 rows |-> [t \in Tasks |->
                             IF tstatus[t] = "active"
                             THEN [status |-> tstatus[t], meta |-> tmeta[t], idle |-> idle[t]]
                             ELSE NoSnap],
                 todo |-> {t \in Tasks : tstatus[t] = "active"},
                 alerts |-> {}]
    /\ UNCHANGED <<tstatus, idle, tmeta, msgs, nactions, plan_items, tdisplay, reply,
                   wait_jobs, ow, since_alert>>
    /\ UNCHANGED offtask

\* _reconcile_active_wait_ids: the ids whose row is watching.
Reconciled(ids) == {w \in ids : wait_jobs[w] = "watching"}

\* idle_seconds < STUCK_THRESHOLD_SECONDS: continue
IdleEnough(seconds) == ~(seconds < STUCK_THRESHOLD_SECONDS)

\* The cooldown test left out.
CooledDownAlways(seconds) == TRUE

\* now_epoch - last_alert_at < STUCK_ALERT_COOLDOWN_SECONDS: continue
CooledDown(seconds) == ~(seconds < STUCK_ALERT_COOLDOWN_SECONDS)

\* if active_wait_ids: continue -- left out.
NoActiveWaitAlways(ids) == TRUE

\* if active_wait_ids: continue
NoActiveWait(ids) == ids = {}

\* check_stuck_tasks decides to alert for the row it selected.
Alerts(t) ==
    LET snap == stuck.rows[t]
    IN /\ NoActiveWait(Reconciled(snap.meta.wait_ids))
       /\ IdleEnough(snap.idle)
       /\ CooledDown(snap.meta.alert_age)

\* check_stuck_tasks, the body of its loop for one selected row: reconcile
\* and persist the ids, then skip the task or alert for it.
StuckTask(t) ==
    /\ stuck.pc = "loop"
    /\ t \in stuck.todo
    /\ LET snap == stuck.rows[t]
           alive == Reconciled(snap.meta.wait_ids)
           m1 == [snap.meta EXCEPT !.wait_ids = alive]
       IN IF Alerts(t)
          THEN /\ Len(msgs[t]) < MaxMsgs
               /\ tmeta' = [tmeta EXCEPT ![t] = [m1 EXCEPT !.alert_age = 0]]
               /\ msgs' = [msgs EXCEPT ![t] = Append(@, "stuck")]
               /\ since_alert' = [since_alert EXCEPT ![t] = 0]
               /\ stuck' = [stuck EXCEPT
                              !.todo = @ \ {t},
                              !.alerts = @ \cup {[task_id |-> t,
                                                  progress |-> Progress(plan_items[t]),
                                                  idle_seconds |-> snap.idle]}]
          ELSE /\ tmeta' = [tmeta EXCEPT ![t] = IF alive # snap.meta.wait_ids THEN m1 ELSE @]
               /\ stuck' = [stuck EXCEPT !.todo = @ \ {t}]
               /\ UNCHANGED <<msgs, since_alert>>
    /\ UNCHANGED <<tstatus, idle, nactions, plan_items, tdisplay, reply, wait_jobs, ow>>
    /\ UNCHANGED offtask

\* check_stuck_tasks: return alerts.
StuckReturn ==
    /\ stuck.pc = "loop"
    /\ stuck.todo = {}
    /\ stuck' = NoCheck
    /\ UNCHANGED <<tstatus, idle, tmeta, msgs, nactions, plan_items, tdisplay, reply,
                   wait_jobs, ow, since_alert>>
    /\ UNCHANGED offtask

\* The terminal statuses the rows of wait_jobs take here: the task manager
\* tests a row's status against 'watching' alone.
WaitEnds == {"resolved"}

\* The item statuses update_plan_item requests carry.
ItemStatusArgs == {"completed"}

TaskNext ==
    \/ TaskTick
    \/ \E t \in Tasks, alive \in BOOLEAN : RegisterTask(t, TwoSteps, alive)
    \/ \E t \in Tasks, s \in StatusArgs, m \in BOOLEAN : UpdateTask(t, s, m)
    \/ \E t \in Tasks, o \in {0, 1}, st \in ItemStatusArgs : UpdatePlanItem(t, o, st)
    \/ \E w \in Waits : WaitInsert(w)
    \/ \E w \in Waits, st \in WaitEnds : WaitEnd(w, st)
    \/ \E w \in Waits, t \in Tasks, k \in {"created", "finished"} : OnWaitRead(w, t, k)
    \/ \E w \in Waits : OnWaitWrite(w)
    \/ StuckSelect
    \/ \E t \in Tasks : StuckTask(t)
    \/ StuckReturn

TaskSpec == Init /\ [][TaskNext]_vars

\* The task manager's registration and plan handlers alone, with every plan
\* of Plans submitted.
PlanNext ==
    \/ TaskTick
    \/ \E t \in Tasks, plan \in Plans, alive \in BOOLEAN : RegisterTask(t, plan, alive)
    \/ \E t \in Tasks, s \in StatusArgs, m \in BOOLEAN : UpdateTask(t, s, m)
    \/ \E t \in Tasks, o \in {0, 1}, st \in VALID_ITEM_STATUSES : UpdatePlanItem(t, o, st)

PlanSpec == Init /\ [][PlanNext]_vars

\* The job of wait w leaves the scheduler with no terminal write: the
\* daemon ends (a new WaitEngine starts with an empty map and nothing reads
\* the watching rows back), or _persist_wait_terminal raises after the job
\* was deleted from the map.  Nothing is written.
WaitAbandon(w) ==
    /\ wait_jobs[w] = "watching"
    /\ w \notin abandoned
    /\ abandoned' = abandoned \cup {w}
    /\ UNCHANGED <<tasking, scheduling, capture, displaying, context, gating, parsing,
                   polling>>

\* The task manager's wait hooks and stuck check, with waits that can be
\* abandoned; only a wait the scheduler holds gets its terminal write.
OrphanNext ==
    \/ TaskTick
    \/ \E t \in Tasks, alive \in BOOLEAN : RegisterTask(t, TwoSteps, alive)
    \/ \E w \in Waits : WaitInsert(w)
    \/ \E w \in Waits : WaitAbandon(w)
    \/ \E w \in Waits \ abandoned, st \in WaitEnds : WaitEnd(w, st)
    \/ \E w \in Waits, t \in Tasks, k \in {"created", "finished"} : OnWaitRead(w, t, k)
    \/ \E w \in Waits : OnWaitWrite(w)
    \/ StuckSelect
    \/ \E t \in Tasks : StuckTask(t)
    \/ StuckReturn

OrphanSpec == Init /\ [][OrphanNext]_vars

\* --------------------------------------------------------- wait/context.py
offcontext == <<scheduling, capture, tasking, displaying, gating, parsing, polling, orphans>>

\* The verdicts add_verdict is called with.
Results == {"resolved", "partial", "watching"}

\* FrameSnapshot of the n-th frame ingested.
FrameSnapshot(n) == [jpeg |-> <<"jpeg", n>>, thumbnail |-> <<"thumbnail", n>>, timestamp |-> n]

\* A deque that refuses the new element when it is full.
DequeKeepsOldest(q, x, maxlen) == IF Len(q) = maxlen THEN q ELSE Append(q, x)

\* deque(maxlen = maxlen).append(x): a full deque drops its leftmost element.
DequeAppend(q, x, maxlen) == IF Len(q) = maxlen THEN Append(Tail(q), x) ELSE Append(q, x)

\* JobContext.add_frame
AddFrame ==
    /\ ingested < MaxAdds
    /\ ingested' = ingested + 1
    /\ frames' = DequeAppend(frames, FrameSnapshot(ingested + 1), MAX_CONTEXT_FRAMES)
    /\ UNCHANGED <<verdicts, judged, images>>
    /\ UNCHANGED offcontext

\* JobContext.add_verdict
AddVerdict(result) ==
    /\ judged < MaxAdds
    /\ judged' = judged + 1
    /\ verdicts' = DequeAppend(verdicts, [result |-> result, timestamp |-> judged + 1],
                               MAX_CONTEXT_VERDICTS)
    /\ UNCHANGED <<frames, ingested, images>>
    /\ UNCHANGED offcontext

\* build_prompt sending thumbnails only.
CurrentAsThumbnail(f) == f.thumbnail

\* build_prompt: the entry for the most recent frame.
Current(f) == f.jpeg

\* build_prompt: images
Images(frame_list) ==
    LET earlier == SubSeq(frame_list, 1, Len(frame_list) - 1)
        thumbs == [i \in 1..Len(earlier) |-> earlier[i].thumbnail]
    IN IF frame_list # <<>> THEN Append(thumbs, Current(frame_list[Len(frame_list)]))
       ELSE thumbs

\* JobContext.build_prompt
BuildPrompt ==
    /\ images' = Images(frames)
    /\ UNCHANGED <<frames, verdicts, ingested, judged>>
    /\ UNCHANGED offcontext

ContextNext ==
    \/ AddFrame
    \/ \E result \in Results : AddVerdict(result)
    \/ BuildPrompt

ContextSpec == Init /\ [][ContextNext]_vars

\* ---------------------------------------------------------- capture/diff.py
offgate == <<scheduling, capture, tasking, displaying, context, parsing, polling, orphans>>

\* The frames captured: one row of Widths elements, each a uint8 intensity.
\* The differences stay within int16, the type should_evaluate subtracts in.
Intensities == {0, 10, 21}
Widths == {2, 4}
Frames == UNION {[1..w -> Intensities] : w \in Widths}

\* The thresholds a gate is constructed with: none, or one half.
ThresholdArgs == {NoThreshold, [num |-> 1, den |-> 2]}

\* _downsample(frame, max_width)
Downsample(frame, max_width) ==
    LET w == Len(frame)
        step == Max(1, w \div max_width)
    IN IF w <= max_width THEN frame
       ELSE [i \in 1..((w + step - 1) \div step) |-> frame[(i - 1) * step + 1]]

Abs(x) == IF x < 0 THEN 0 - x ELSE x

\* np.mean(diff > 10) of two arrays of one shape, as a fraction.
DiffPct(small, ref) ==
    [num |-> Cardinality({i \in 1..Len(small) : Abs(small[i] - ref[i]) > INTENSITY}),
     den |-> Len(small)]

\* A gate that lets a ratio equal to the threshold through.
ExceedsOrEquals(pct, th) == pct.num * th.den >= th.num * pct.den

\* self.last_diff_pct > self.threshold
Exceeds(pct, th) == pct.num * th.den > th.num * pct.den

\* PixelDiffGate(threshold): threshold or config.PIXEL_DIFF_THRESHOLD
GateNew(th) ==
    /\ threshold' = IF th = NoThreshold THEN PIXEL_DIFF_THRESHOLD ELSE th
    /\ last_frame' = NoFrame
    /\ last_diff_pct' = Zero
    /\ given' = NoFrame
    /\ should' = FALSE
    /\ UNCHANGED offgate

\* PixelDiffGate.should_evaluate(frame)
ShouldEvaluate(frame) ==
    LET small == Downsample(frame, DIFF_MAX_WIDTH)
    IN /\ IF last_frame = NoFrame \/ Len(small) # Len(last_frame)
          THEN /\ last_diff_pct' = One
               /\ should' = TRUE
          ELSE /\ last_diff_pct' = DiffPct(small, last_frame)
               /\ should' = Exceeds(DiffPct(small, last_frame), threshold)
       /\ last_frame' = small
       /\ given' = frame
       /\ UNCHANGED threshold
       /\ UNCHANGED offgate

\* PixelDiffGate.reset
GateReset ==
    /\ last_frame' = NoFrame
    /\ last_diff_pct' = Zero
    /\ UNCHANGED <<threshold, given, should>>
    /\ UNCHANGED offgate

GateNext ==
    \/ \E th \in ThresholdArgs : GateNew(th)
    \/ \E frame \in Frames : ShouldEvaluate(frame)
    \/ GateReset

GateSpec == Init /\ [][GateNext]_vars

\* -------------------------------------------------- WaitEngine._parse_verdict
offparse == <<scheduling, capture, tasking, displaying, context, gating, polling, orphans>>

\* The lines of a answer, stripped: the word a line starts with, what
\* follows the word (a colon, a blank, or nothing: the line ends), and
\* whether text comes after that.  The last one is a blank line.
ReplyLines ==
    {[head |-> "Yes", sep |-> ":", rest |-> TRUE],
     [head |-> "YES", sep |-> "", rest |-> FALSE],
     [head |-> "PARTIAL", sep |-> " ", rest |-> TRUE],
     [head |-> "PARTIAL", sep |-> "", rest |-> FALSE],
     [head |-> "no", sep |-> ":", rest |-> FALSE],
     [head |-> "NO", sep |-> "", rest |-> FALSE],
     [head |-> "NOTE", sep |-> ":", rest |-> TRUE],
     [head |-> "", sep |-> "", rest |-> FALSE]}

\* The values of "confidence", in hundredths: missing or null, the numbers
\* 0.74 and 0.75, the strings "0.9" and "high", true, and a list.
Confidences ==
    {NoConfidence,
     [kind |-> "number", value |-> RESOLVE_CONFIDENCE_THRESHOLD - 1],
     [kind |-> "number", value |-> RESOLVE_CONFIDENCE_THRESHOLD],
     [kind |-> "numeral", value |-> 90],
     [kind |-> "word", value |-> 0],
     [kind |-> "true", value |-> 0],
     [kind |-> "list", value |-> 0]}

\* The values of "evidence": missing or an empty list, lists of strings,
\* a bare string, and a number.
Evidences ==
    {NoEvidence,
     [kind |-> "list", items |-> <<" ">>],
     [kind |-> "list", items |-> <<"", "x">>],
     [kind |-> "str", items |-> <<"x">>],
     [kind |-> "number", items |-> <<"5">>]}

\* The FINAL_JSON fragment of a answer: none, one json.loads rejects, or an
\* object with its decision, its confidence and its evidence.
Payloads ==
    [decision : {"resolved", " YES", "progress", "watching", "maybe"},
     confidence : Confidences,
     evidence : Evidences]

\* The replies of the vision backend: up to two lines of reasoning with no
\* FINAL_JSON fragment or one json.loads rejects, and a FINAL_JSON object
\* alone or after a line that says YES.
Replies ==
    [lines : {<<>>} \cup {<<a>> : a \in ReplyLines} \cup (ReplyLines \X ReplyLines),
     json : {NoJson, Malformed}]
    \cup [lines : {<<>>, <<[head |-> "YES", sep |-> "", rest |-> FALSE]>>},
          json : Payloads]

\* str.upper() of the words the lines start with.
Upper(word) ==
    CASE word \in {"Yes", "YES"} -> "YES"
      [] word \in {"no", "NO"} -> "NO"
      [] OTHER -> word

\* str(...).strip().lower() of the decisions.
StripLowerDecision(d) == IF d = " YES" THEN "yes" ELSE d

\* (response or "").strip() is empty.
EmptyText(answer) ==
    /\ answer.json = NoJson
    /\ \A i \in 1..Len(answer.lines) : answer.lines[i].head = ""

\* float(confidence) if confidence is not None else 0.0, with 0.0 for the
\* TypeError of a list and the ValueError of a string that is no numeral;
\* float(True) is 1.0.  In hundredths.
ConfVal(confidence) ==
    CASE confidence.kind \in {"number", "numeral"} -> confidence.value
      [] confidence.kind = "true" -> 100
      [] OTHER -> 0

\* The threshold test passing only above the threshold.
ConfidentAbove(conf_val) == conf_val > RESOLVE_CONFIDENCE_THRESHOLD

\* conf_val >= config.RESOLVE_CONFIDENCE_THRESHOLD
Confident(conf_val) == conf_val >= RESOLVE_CONFIDENCE_THRESHOLD

\* str(x).strip() of an evidence item.
StripItem(x) == IF x = " " THEN "" ELSE x

\* evidence_text is not empty: a bare string is one item, what is neither
\* a string nor a list is no item, and an item counts when its stripped
\* text is not empty.
EvidenceText(evidence) ==
    /\ evidence.kind \in {"list", "str"}
    /\ \E i \in 1..Len(evidence.items) : StripItem(evidence.items[i]) # ""

\* The structured branch of _parse_verdict.
ParseJson(payload) ==
    LET decision == StripLowerDecision(payload.decision)
        result == IF decision \in {"yes", "resolved"} THEN "resolved"
                  ELSE IF decision \in {"partial", "in_progress", "progress"} THEN "partial"
                  ELSE "watching"
        promoted == /\ result = "watching"
                    /\ Confident(ConfVal(payload.confidence))
                    /\ EvidenceText(payload.evidence)
    IN IF promoted THEN [result |-> "partial", detail |-> "conf-promoted"]
       ELSE [result |-> result, detail |-> "structured"]

\* The legacy branch for one line: the verdict it gives, or NoVerdict.
ParseLine(line) ==
    LET upper == Upper(line.head)
        detail(default) == IF line.rest THEN "rest" ELSE default
    IN IF upper = "YES" /\ line.sep \in {":", " "}
       THEN [result |-> "resolved", detail |-> detail("Condition met")]
       ELSE IF upper = "YES" /\ line.sep = "" /\ ~line.rest
       THEN [result |-> "resolved", detail |-> "Condition met"]
       ELSE IF upper = "PARTIAL" /\ line.sep \in {":", " "}
       THEN [result |-> "partial", detail |-> detail("Partial progress")]
       ELSE IF upper = "NO" /\ line.sep \in {":", " "}
       THEN [result |-> "watching", detail |-> detail("Condition not yet met")]
       ELSE IF upper = "NO" /\ line.sep = "" /\ ~line.rest
       THEN [result |-> "watching", detail |-> "Condition not yet met"]
       ELSE NoVerdict

\* The legacy branch: the first line that gives a verdict, else the text.
ParseLegacy(lines) ==
    LET nonblank == SelectSeq(lines, LAMBDA l : l.head # "")
        hits == SelectSeq(nonblank, LAMBDA l : ParseLine(l) # NoVerdict)
    IN IF hits # <<>> THEN ParseLine(hits[1])
       ELSE [result |-> "watching", detail |-> "text"]

\* _parse_verdict(response)
ParseVerdict(answer) ==
    /\ response' = answer
    /\ parsed' = IF EmptyText(answer) THEN [result |-> "watching", detail |-> "Empty response"]
                 ELSE IF answer.json \notin {NoJson, Malformed} THEN ParseJson(answer.json)
                 ELSE ParseLegacy(answer.lines)
    /\ UNCHANGED offparse

ParseNext == \E answer \in Replies : ParseVerdict(answer)

ParseSpec == Init /\ [][ParseNext]_vars

\* ------------------------------------------------------------ wait/poller.py
offpoll == <<scheduling, capture, tasking, displaying, context, gating, parsing, orphans>>

\* The base intervals a poller is made with: none, or the poll_interval of
\* the submit-wait request, which handle_smart_wait passes on as it comes:
\* 8 seconds, a quarter of a second.
BaseArgs == {NoBase, [num |-> 8, den |-> 1], [num |-> 1, den |-> 4]}

\* A fraction in lowest terms; the denominators are powers of two.
RECURSIVE Lowest(_)
Lowest(x) ==
    IF x.num % 2 = 0 /\ x.den % 2 = 0 THEN Lowest([num |-> x.num \div 2, den |-> x.den \div 2])
    ELSE x

Times(x, n, d) == Lowest([num |-> x.num * n, den |-> x.den * d])
Less(x, y) == x.num * y.den < y.num * x.den
MinOf(x, y) == IF Less(y, x) THEN y ELSE x
MaxOf(x, y) == IF Less(x, y) THEN y ELSE x

\* on_no_change slowing down from its fifth call on.
SlowsFromFifth(count) == count >= STATIC_CALLS

\* if self.static_count > 5
Slows(count) == count > STATIC_CALLS

\* AdaptivePoller(base_interval)
PollerNew(b) ==
    /\ base' = IF b = NoBase THEN DEFAULT_POLL_INTERVAL ELSE b
    /\ interval' = base'
    /\ static_count' = 0
    /\ polled' = 0
    /\ UNCHANGED offpoll

\* AdaptivePoller.on_no_change
OnNoChange ==
    /\ polled < MaxPolls
    /\ polled' = polled + 1
    /\ static_count' = static_count + 1
    /\ interval' = IF Slows(static_count + 1)
                  THEN MinOf(Times(interval, 3, 2), MAX_POLL_INTERVAL)
                  ELSE interval
    /\ UNCHANGED base
    /\ UNCHANGED offpoll

\* AdaptivePoller.on_change_no_match
OnChangeNoMatch ==
    /\ polled < MaxPolls
    /\ polled' = polled + 1
    /\ static_count' = 0
    /\ interval' = base
    /\ UNCHANGED base
    /\ UNCHANGED offpoll

\* AdaptivePoller.on_partial
OnPartial ==
    /\ polled < MaxPolls
    /\ polled' = polled + 1
    /\ static_count' = 0
    /\ interval' = MaxOf(Times(interval, 1, 2), MIN_POLL_INTERVAL)
    /\ UNCHANGED base
    /\ UNCHANGED offpoll

PollNext ==
    \/ \E b \in BaseArgs : PollerNew(b)
    \/ OnNoChange
    \/ OnChangeNoMatch
    \/ OnPartial

PollSpec == Init /\ [][PollNext]_vars

\* ================================================================ properties

\* C1: the status of a wait job is always one of watching, resolved,
\* timeout, cancelled, error, and a terminal status (resolved, timeout,
\* cancelled), once set on the job, never changes again, also when the job
\* is cancelled while its vision call is in flight and the verdict comes
\* back resolved.
C1_TerminalStatusFinal ==
    [][\A j \in Jobs :
         /\ job'[j].status # "none" => job'[j].status \in WaitStates
         /\ job[j].status \in Terminal => job'[j].status = job[j].status]_vars

\* C2: a job that was added leaves the scheduler with exactly one terminal
\* status: the status on the job and the status of its wait row never name
\* two different terminal statuses, at most one wake event is emitted for
\* it, and a timeout event goes with a row whose status is timeout.
C2_ExactlyOneTerminalStatus ==
    \A j \in Jobs :
        /\ (job[j].status \in Terminal /\ row[j].status \in Terminal)
              => row[j].status = job[j].status
        /\ Len(wakes[j]) <= 1
        /\ (wakes[j] # <<>> /\ wakes[j][1].kind = "timeout") => row[j].status = "timeout"

\* The scheduler starts an evaluation of job b: the timeout path, a failed
\* capture, a frame the diff gate holds back, or a frame sent to vision.
EvalStart(b) ==
    \/ EvalTimeout(b)
    \/ \E iv \in Intervals : EvalMiss(b, iv) \/ EvalStatic(b, iv)
    \/ \E ch \in BOOLEAN : EvalVision(b, ch)

\* C3 (as claimed): while job a is suspended in its vision call, journal
\* write or wake emission, the evaluation of another overdue job b (its
\* timeout check, capture and vision call) can start.
C3_OverdueJobsRunConcurrently ==
    \A a, b \in Jobs :
        (/\ a # b
         /\ cur = a
         /\ loop \in {"vision", "persist", "hookread", "hookwrite"}
         /\ b \in jobs
         /\ job[b].due <= 0) => ENABLED EvalStart(b)

\* C3 (amended): jobs are evaluated one at a time.  While the scheduler is
\* suspended in the evaluation of job a, no other job b is captured for, sent
\* to vision, rescheduled, resolved or timed out.
C3_OneEvaluationAtATime ==
    [][\A b \in Jobs :
         (cur # NoJob /\ cur # b) =>
             /\ evaluated'[b] = evaluated[b]
             /\ job'[b].hasFrame = job[b].hasFrame
             /\ job'[b].due <= job[b].due
             /\ job'[b].status \in {"resolved", "timeout"}
                   => job'[b].status = job[b].status]_vars

\* Job a is suspended in its vision call while job b is in the map and overdue.
C3_Witness ==
    \E a, b \in Jobs :
        a # b /\ cur = a /\ loop = "vision" /\ b \in jobs /\ job[b].due <= 0
           /\ job[b].age > 0

\* C4: for every task T, every id in T's active_wait_ids names a wait row
\* whose status is watching and whose task_id is T.
C4_ActiveIdsWatching ==
    \A t \in Tasks : \A j \in active[t] :
        row[j].status = "watching" /\ row[j].task = t

\* C5: every job in the scheduler's map has status watching; a job with
\* status resolved, timeout or cancelled is not in the map, and no step,
\* the reschedule that ends an evaluation in flight at its removal included,
\* puts it back.
C5_MapHoldsWatching ==
    \A j \in Jobs :
        /\ j \in jobs => job[j].status = "watching"
        /\ job[j].status \in Terminal => j \notin jobs

\* A job was cancelled while its vision call was in flight, the verdict has
\* come back and the iteration has ended with its reschedule.
C5_Witness ==
    \E j \in Jobs :
        /\ loop = "top"
        /\ job[j].status = "resolved"
        /\ row[j].status = "cancelled"
        /\ wakes[j] = <<>>
        /\ j \notin jobs

\* C6: a job that is submitted and then cancelled is absent from the map
\* and no evaluation is started for it from then on; when the cancel handler
\* is done its one wait row has status cancelled and the supplied reason;
\* a cancel of an id that is not in the map changes no state.
C6_CancelBeforeFirstTick ==
    [][\A j \in Jobs :
         /\ hc[j] # "idle" => (j \notin jobs /\ j \notin jobs'
                                /\ evaluated'[j] = evaluated[j])
         /\ hc'[j] = "done" => (row'[j].status = "cancelled"
                                 /\ row'[j].result = "reason")
         /\ (j \notin jobs /\ Cancel(j)) => UNCHANGED vars]_vars

\* A job cancelled before any evaluation of it, its cancel handler done.
C6_Witness ==
    \E j \in Jobs :
        /\ hc[j] = "done"
        /\ ~evaluated[j]
        /\ j \notin jobs
        /\ row[j].status = "cancelled"
        /\ job[j].status = "cancelled"

\* The scheduler captures (or tries to capture) a frame for job j.
Captured(j) ==
    \/ \E iv \in Intervals : EvalMiss(j, iv) \/ EvalStatic(j, iv)
    \/ \E ch \in BOOLEAN : EvalVision(j, ch)

\* C7 (as claimed): no capture is attempted in an evaluation that starts
\* with elapsed >= timeout, elapsed = timeout included.
C7_TimeoutAtDeadline ==
    [][\A j \in Jobs : Captured(j) => job[j].age < job[j].timeout]_vars

\* C7 (amended): an evaluation that starts with elapsed > timeout ends the
\* job with Timeout before any capture, whether or not a frame was ever
\* captured; with elapsed = timeout the evaluation goes on to the capture.
C7_TimeoutPastDeadline ==
    [][\A j \in Jobs :
         /\ Captured(j) => job[j].age <= job[j].timeout
         /\ (job'[j].status = "timeout" /\ job[j].status # "timeout")
               => (/\ job[j].age > job[j].timeout
                   /\ evaluated'[j] = evaluated[j]
                   /\ job'[j].hasFrame = job[j].hasFrame)
         /\ (loop = "top" /\ loop' # "top" /\ cur' = j /\ job[j].age > job[j].timeout)
               => job'[j].status = "timeout"]_vars

\* A frame captured with elapsed = timeout has just been sent to vision.
C7_Witness ==
    /\ loop = "vision"
    /\ cur \in Jobs
    /\ \E j \in Jobs : j = cur /\ job[j].age = job[j].timeout /\ job[j].still = 0

\* C8: for every display string at most one capture is inside its critical
\* section, and every thread that was handed a lock for a display was handed
\* the one lock object registered for that display, so two threads asking
\* for a display seen for the first time get the same object.
C8_OneCapturePerDisplay ==
    /\ \A d \in Displays : Cardinality({t \in Threads : pc[t] = "cs" /\ disp[t] = d}) <= 1
    /\ \A t \in Threads : pc[t] \in {"acquire", "cs"} => got[t] = xlib_locks[disp[t]]
    /\ \A t, u \in Threads :
          (pc[t] \in {"acquire", "cs"} /\ pc[u] \in {"acquire", "cs"} /\ disp[t] = disp[u])
             => got[t] = got[u]

\* One thread captures on a display while another, handed the same lock,
\* waits for it, and a third is still inside _get_xlib_lock for that display.
C8_Witness ==
    \E t, u, w \in Threads :
        /\ t # u /\ u # w /\ t # w
        /\ disp[t] = disp[u] /\ disp[u] = disp[w]
        /\ pc[t] = "cs" /\ pc[u] = "acquire" /\ pc[w] = "lock_mu"
        /\ got[t] = got[u]

\* C9: when a resolved or timeout wake event is emitted for job j, j has
\* been removed from the map, its row carries the same terminal status and
\* result, the wait-finished hook of a linked job has been called after the
\* row was written, and the event text holds j's id, criteria and description.
C9_TerminalOrder ==
    [][\A j \in Jobs :
         wakes'[j] # wakes[j] =>
             /\ j \notin jobs /\ j \notin jobs'
             /\ cur = j
             /\ kind \in {"resolved", "timeout"}
             /\ job[j].status = kind
             /\ row'[j].status = kind
             /\ row'[j].result = job[j].result
             /\ job[j].task # NoTask => (loop = "hookwrite" /\ row[j].status = kind)
             /\ wakes'[j] = Append(wakes[j], [kind |-> kind, job |-> j,
                                              criteria |-> job[j].criteria,
                                              desc |-> job[j].result])]_vars

\* A wake event was emitted for a linked job whose criteria had been replaced.
C9_Witness ==
    \E j \in Jobs :
        /\ Len(wakes[j]) = 1
        /\ job[j].task # NoTask
        /\ wakes[j][1].criteria = "c1"
        /\ wakes[j][1].kind = "resolved"

C11_StreakPromotion ==
    [][\A v \in Verdicts, iv \in Intervals :
         (VisionReturn(v, iv) /\ cur \in jobs) =>
            LET n == job[cur].streak + 1
                promoted == v = "partial" /\ job'[cur].status = "resolved"
            IN /\ promoted <=> (v = "partial" /\ n = PARTIAL_STREAK_RESOLVE)
               /\ promoted => job'[cur].result = PromoteDesc(PARTIAL_STREAK_RESOLVE)
               /\ v = "watching" => job'[cur].streak = 0 /\ job'[cur].status = "watching"
               /\ (v = "partial" /\ n < PARTIAL_STREAK_RESOLVE) =>
                      /\ job'[cur].status = "watching"
                      /\ cur \in jobs'
                      /\ job'[cur].streak = n
                      /\ job'[cur].poller = "on_partial"]_vars

\* A job was promoted after PARTIAL_STREAK_RESOLVE partial verdicts and its
\* terminal row written.
C11_Witness ==
    \E j \in Jobs :
        /\ job[j].status = "resolved"
        /\ job[j].result = PromoteDesc(PARTIAL_STREAK_RESOLVE)
        /\ row[j].result = PromoteDesc(PARTIAL_STREAK_RESOLVE)

\* C12: when a due job's frame is captured and the gate reports no change,
\* a vision call is made if MaxStatic or more has passed since the last
\* vision call (since the start if there was none); if less has passed, no
\* vision call is made, no frame is added, poller.on_no_change is called and
\* the job is rescheduled one interval ahead.
C12_StaticReevaluation ==
    [][\A j \in Jobs :
         /\ (EvalHead(j) /\ ~TimedOut(job[j].age, job[j].timeout) /\ job[j].gate) =>
               IF SinceLastVision(j) >= MaxStatic
               THEN /\ ENABLED EvalVision(j, FALSE)
                    /\ \A iv \in Intervals : ~ENABLED EvalStatic(j, iv)
               ELSE /\ ~ENABLED EvalVision(j, FALSE)
                    /\ \A iv \in Intervals : ENABLED EvalStatic(j, iv)
         /\ \A iv \in Intervals :
               EvalStatic(j, iv) =>
                  /\ loop' = "top"
                  /\ job'[j].hasFrame = job[j].hasFrame
                  /\ job'[j].still = job[j].still
                  /\ job'[j].poller = "on_no_change"
                  /\ job'[j].due = iv
                  /\ job'[j].status = "watching"
         /\ (EvalVision(j, FALSE) /\ job[j].gate) =>
               loop' = "vision" /\ cur' = j /\ job'[j].still = 0]_vars

\* A job whose unchanged screen was skipped is due again with MaxStatic
\* passed since its last vision call, and not timed out.
C12_Witness ==
    \E j \in Jobs :
        /\ EvalHead(j)
        /\ ~TimedOut(job[j].age, job[j].timeout)
        /\ job[j].gate
        /\ job[j].poller = "on_no_change"
        /\ SinceLastVision(j) >= MaxStatic

\* The fields a wait-update request may carry: wake_when or none, timeout
\* or none (0).
UpdateCriteria == {NoChange, "c1"}
UpdateTimeouts == {0, MaxTimeout, LongTimeout}

\* C13 as claimed: every wait-update on a job of the map, whatever fields it
\* carries, restarts elapsed, rebinds the criteria when wake_when is given,
\* empties the diff gate, installs a fresh poller and sets next_check_at
\* to 0.
C13_UpdateResetsDeadline ==
    [][\A j \in Jobs, c \in UpdateCriteria, to \in UpdateTimeouts :
         Update(j, c, to) =>
            /\ job'[j].age = 0
            /\ c # NoChange => job'[j].criteria = c
            /\ job'[j].gate = FALSE
            /\ job'[j].poller = "new"
            /\ job'[j].due = Epoch]_vars

\* C13 amended: every wait-update on a job of the map empties the diff
\* gate, installs a fresh poller and sets next_check_at to 0; it rebinds the
\* criteria when wake_when is given and keeps them otherwise; it sets the
\* timeout and restarts elapsed when a timeout is given, and leaves both as
\* they are otherwise.
C13_UpdateResetsDeadlineWithTimeout ==
    [][\A j \in Jobs, c \in UpdateCriteria, to \in UpdateTimeouts :
         Update(j, c, to) =>
            /\ job'[j].age = IF to = 0 THEN job[j].age ELSE 0
            /\ job'[j].timeout = IF to = 0 THEN job[j].timeout ELSE to
            /\ job'[j].criteria = IF c = NoChange THEN job[j].criteria ELSE c
            /\ job'[j].gate = FALSE
            /\ job'[j].poller = "new"
            /\ job'[j].due = Epoch
            /\ job'[j].status = "watching"
            /\ j \in jobs']_vars

\* A job updated since its last vision call, with new criteria and no
\* timeout: elapsed is ahead of the time since that call.
C13_Witness ==
    \E j \in jobs :
        /\ job[j].criteria = "c1"
        /\ job[j].hasFrame
        /\ ~job[j].gate
        /\ job[j].poller = "new"
        /\ job[j].due = Epoch
        /\ job[j].still < MaxStatic
        /\ job[j].age > job[j].still

\* check_stuck_tasks adds an alert for task t in this step.
AlertAdded(t) == \E a \in stuck'.alerts \ stuck.alerts : a.task_id = t

C15_AlertCooldown ==
    [][\A t \in Tasks :
         (StuckTask(t) /\ AlertAdded(t)) =>
            /\ stuck.rows[t].status = "active"
            /\ stuck.rows[t].idle >= STUCK_THRESHOLD_SECONDS
            /\ since_alert[t] >= STUCK_ALERT_COOLDOWN_SECONDS
            /\ tmeta'[t].alert_age = 0
            /\ msgs'[t] = Append(msgs[t], "stuck")]_vars

\* A check_stuck_tasks call inside the cooldown has passed over a task alerted
\* for, is idle for the threshold and has no wait.
C15_Witness ==
    \E t \in Tasks :
        /\ stuck.pc = "loop"
        /\ t \notin stuck.todo
        /\ stuck.alerts = {}
        /\ stuck.rows[t].status = "active"
        /\ stuck.rows[t].idle >= STUCK_THRESHOLD_SECONDS
        /\ stuck.rows[t].meta.wait_ids = {}
        /\ stuck.rows[t].meta.alert_age < STUCK_ALERT_COOLDOWN_SECONDS
        /\ since_alert[t] < STUCK_ALERT_COOLDOWN_SECONDS

\* C16: the resume packet of an alert has progress.current = 0 and
\* progress.remaining = [1] for a task whose two items are both pending; in
\* general current is the lowest active, else the lowest pending ordinal,
\* and remaining lists the pending ordinals other than current.
C16_ResumeProgress ==
    [][\A t \in Tasks :
         StuckTask(t) =>
            \A a \in stuck'.alerts \ stuck.alerts :
               /\ plan_items[t] = PlanRows(<<"a", "b">>) =>
                     a.progress.current = 0 /\ a.progress.remaining = <<1>>
               /\ a.progress = ProgressBesidesCurrent(plan_items[t])]_vars

\* C17: once a task's status is completed, failed or cancelled, no step
\* changes it.
C17_TerminalStatusMonotonic ==
    [][\A t \in Tasks : tstatus[t] \in TERMINAL_STATUSES => tstatus'[t] = tstatus[t]]_vars

\* C18: the stored status of a task is always one of active, paused,
\* completed, failed, cancelled; update_task stores 'canceled' as
\* 'cancelled'; an update_task whose status is not of the enum after
\* normalization returns an error and leaves the status, the messages, the
\* actions, updated_at and the display as they were, with or without a
\* message in the request.
C18_StatusEnum ==
    [][\A t \in Tasks :
         /\ tstatus'[t] \in VALID_STATUSES \cup {"none"}
         /\ \A m \in BOOLEAN :
               /\ UpdateTask(t, "canceled", m) => tstatus'[t] = "cancelled"
               /\ UpdateTask(t, "done", m) =>
                     /\ reply' = "error"
                     /\ UNCHANGED <<tstatus, msgs, nactions, idle, tdisplay, tmeta,
                                    plan_items>>]_vars

\* A task cancelled under the name 'canceled' has since had an update
\* refused.
C18_Witness ==
    \E t \in Tasks : tstatus[t] = "cancelled" /\ reply = "error"

\* C19: an allocate_display for a task id that is recorded returns the
\* DisplayInfo recorded and starts no process; a release_display for a task
\* id that is not recorded (released before, or never allocated) changes
\* nothing.
C19_AllocateReleaseIdempotent ==
    [][\A t \in DisplayTasks, b \in BOOLEAN :
         /\ (Allocate(t, b) /\ displays[t] # NoInfo) =>
               /\ last' = displays[t]
               /\ UNCHANGED <<displays, xlocks, started>>
         /\ (Release(t, b) /\ displays[t] = NoInfo) =>
               UNCHANGED <<displays, xlocks, started, calls, last>>]_vars

\* Two allocate_display calls started one process: the second one returned
\* the DisplayInfo of the first.
C19_Witness ==
    \E t \in DisplayTasks :
        /\ calls = 2
        /\ started = 1
        /\ displays[t] # NoInfo
        /\ last = displays[t]

\* C20: in every state each task id has at most one DisplayInfo (its own),
\* no two DisplayInfos recorded share a display number and every recorded
\* number is at least 100; an allocation that records a DisplayInfo takes
\* the lowest number from 100 on that is neither recorded nor has a lock
\* file of the host; an allocation that fails records nothing.
C20_DisplaySlots ==
    [][/\ \A t \in DisplayTasks :
            displays'[t] # NoInfo =>
               /\ displays'[t].task_id = t
               /\ displays'[t].display_num >= FirstDisplayNum
               /\ \A u \in DisplayTasks \ {t} :
                     displays'[u] # NoInfo =>
                        displays'[u].display_num # displays'[t].display_num
       /\ \A t \in DisplayTasks, b \in BOOLEAN :
            (Allocate(t, b) /\ displays[t] = NoInfo) =>
               IF displays'[t] # NoInfo
               THEN /\ b
                    /\ displays'[t].display_num \in DisplayNums \ (UsedNums \cup xlocks)
                    /\ \A n \in DisplayNums \ (UsedNums \cup xlocks) :
                          displays'[t].display_num <= n
               ELSE UNCHANGED <<displays, xlocks>>]_vars

\* A task holds display 101 while 100 is taken by the host and not
\* recorded, after an allocation that failed.
C20_Witness ==
    \E t \in DisplayTasks :
        /\ displays[t].display_num = FirstDisplayNum + 1
        /\ FirstDisplayNum \in xlocks
        /\ FirstDisplayNum \notin UsedNums
        /\ started > Cardinality({u \in DisplayTasks : displays[u] # NoInfo})

\* C21: when allocate_display raises inside register_task, the task is
\* still created with status active and its plan items, its metadata display
\* is the configured default display, and the display manager holds no
\* DisplayInfo for the task.
C21_RegisterSurvivesAllocationFailure ==
    [][\A t \in Tasks, plan \in Plans \ {<<>>}, alive \in BOOLEAN :
         RegisterTask(t, plan, alive) /\ Allocation(t, alive).ret = RuntimeError =>
            /\ tstatus'[t] = "active"
            /\ plan_items'[t] = PlanRows(Stripped(plan))
            /\ tmeta'[t].display = ConfigDisplay
            /\ displays'[t] = NoInfo]_vars

\* A task registered while its Xvfb died at start-up.
C21_Witness ==
    \E t \in Tasks :
        /\ tstatus[t] = "active"
        /\ started = 1
        /\ last = RuntimeError
        /\ displays[t] = NoInfo
        /\ tmeta[t].display = ConfigDisplay
        /\ plan_items[t] # {}

\* C22: a wake emission that fails (the command exits non-zero, times out
\* or cannot be started) leaves the terminal row as it was persisted and the
\* job out of the map, and the scheduler loop is back at the top of its
\* while loop, still running, to serve the jobs that remain.
C22_FailedWakeContained ==
    [][\A out \in Emissions \ {"ok"} :
         (PersistTerminal(out) /\ wakes' # wakes) \/ HookWrite(out) =>
            /\ row'[cur] = PersistRow(row[cur], kind, job[cur].result)
            /\ HookWrite(out) => row' = row
            /\ cur \notin jobs'
            /\ jobs' = jobs
            /\ loop' = "top"
            /\ loopRunning']_vars

\* After a wake emission that failed for a timed-out job, the scheduler is
\* in the vision call of the other job.
C22_Witness ==
    \E j \in Jobs :
        /\ emitted \in Emissions \ {"ok"}
        /\ wakes[j] # <<>>
        /\ wakes[j][Len(wakes[j])].kind = "timeout"
        /\ row[j].status = "timeout"
        /\ j \notin jobs
        /\ jobs # {}
        /\ loop = "vision"
        /\ cur # j

\* The ordinals of a task's plan items.
Ordinals(items) == {r.ordinal : r \in items}

\* No two plan items of the task share an ordinal, and the ordinals are
\* 0 .. n-1.
Contiguous(items, n) ==
    /\ Cardinality(items) = n
    /\ Ordinals(items) = 0..(n - 1)

\* C23 as stated: register_task creates the task active with one pending
\* plan item per entry of the plan submitted, the ordinals being 0 .. n-1
\* for the n entries submitted, and they stay so.
C23_OrdinalsPerEntry ==
    [][\A t \in Tasks :
         /\ \A plan \in Plans \ {<<>>}, alive \in BOOLEAN :
               RegisterTask(t, plan, alive) =>
                  /\ tstatus'[t] = "active"
                  /\ \A r \in plan_items'[t] : r.status = "pending"
                  /\ Contiguous(plan_items'[t], Len(plan))
         /\ tstatus[t] # "none" => Ordinals(plan_items'[t]) = Ordinals(plan_items[t])]_vars

\* C23, amended: register_task creates the task active with one pending plan
\* item per entry that is not blank, titled by the entry with the blanks
\* around it removed, the ordinals being 0 .. m-1 in the order of those m
\* entries; afterwards no step changes the ordinals or the number of items.
C23_OrdinalsPerKeptEntry ==
    [][\A t \in Tasks :
         /\ \A plan \in Plans \ {<<>>}, alive \in BOOLEAN :
               RegisterTask(t, plan, alive) =>
                  /\ tstatus'[t] = "active"
                  /\ \A r \in plan_items'[t] :
                        r.status = "pending" /\ r.title = Stripped(plan)[r.ordinal + 1]
                  /\ Contiguous(plan_items'[t], Len(Stripped(plan)))
         /\ tstatus[t] # "none" =>
               /\ Contiguous(plan_items[t], Cardinality(plan_items[t]))
               /\ Contiguous(plan_items'[t], Cardinality(plan_items[t]))]_vars

\* A task registered with a blank second step has one item, ordinal 0, and
\* that item has been completed.
C23_Witness ==
    \E t \in Tasks :
        /\ tstatus[t] = "active"
        /\ plan_items[t] = {[ordinal |-> 0, title |-> "a", status |-> "completed"]}

\* C24: after any sequence of add_frame and add_verdict calls the context
\* holds at most 4 frames and 3 verdicts; each call puts its frame or
\* verdict last and keeps the ones before it in order, dropping the oldest
\* one when the deque was full.
C24_RollingContext ==
    [][/\ Len(frames') <= 4 /\ Len(verdicts') <= 3
       /\ AddFrame =>
             /\ frames'[Len(frames')].timestamp = ingested + 1
             /\ SubSeq(frames', 1, Len(frames') - 1) =
                   IF Len(frames) = 4 THEN Tail(frames) ELSE frames
       /\ \A result \in Results :
             AddVerdict(result) =>
                /\ verdicts'[Len(verdicts')] = [result |-> result, timestamp |-> judged + 1]
                /\ SubSeq(verdicts', 1, Len(verdicts') - 1) =
                      IF Len(verdicts) = 3 THEN Tail(verdicts) ELSE verdicts]_vars

\* Both deques have evicted: the fifth frame and the fifth verdict are in.
C24_Witness ==
    /\ ingested = 5 /\ Len(frames) = 4 /\ frames[1].timestamp = 2
    /\ judged = 5 /\ Len(verdicts) = 3 /\ verdicts[1].timestamp = 3

\* C27: build_prompt returns one image per frame of the context, in the
\* order the frames were added: the thumbnail of every frame but the last,
\* then the full-resolution encoding of the last; no image without a frame.
C27_PromptImages ==
    [][BuildPrompt =>
          /\ Len(images') = Len(frames)
          /\ \A i \in 1..Len(frames) :
                images'[i] = IF i < Len(frames) THEN <<"thumbnail", frames[i].timestamp>>
                             ELSE <<"jpeg", frames[i].timestamp>>
          /\ \A i \in 1..(Len(frames) - 1) : frames[i].timestamp < frames[i + 1].timestamp
          /\ frames = <<>> => images' = <<>>]_vars

\* A prompt built from a full context that has evicted a frame.
C27_Witness ==
    /\ ingested = 5
    /\ Len(images) = 4
    /\ images[1] = <<"thumbnail", 2>>
    /\ images[4] = <<"jpeg", 5>>

\* The elements of two arrays of one shape that differ by more than 10.
Changed(a, b) == {i \in 1..Len(a) : a[i] - b[i] > 10 \/ b[i] - a[i] > 10}

\* C25: should_evaluate returns true when the gate holds no frame of the
\* shape of the incoming (downsampled) frame; otherwise the frame it holds
\* is the downsampled frame of the call before, and it returns true exactly
\* when the fraction of elements that differ from it by more than 10 exceeds
\* the threshold.  Either way the incoming frame becomes the frame held and
\* the caller's array is as it was.
C25_DiffGate ==
    [][\A frame \in Frames :
         ShouldEvaluate(frame) =>
            LET small == Downsample(frame, DIFF_MAX_WIDTH)
            IN /\ IF last_frame = NoFrame \/ Len(last_frame) # Len(small)
                  THEN should'
                  ELSE /\ last_frame = Downsample(given, DIFF_MAX_WIDTH)
                       /\ should' <=> (Cardinality(Changed(small, last_frame)) * threshold.den
                                          > threshold.num * Len(small))
                       /\ small = last_frame => ~should'
               /\ last_frame' = small
               /\ given' = frame]_vars

\* A gate with threshold one half has just held back a frame one of whose
\* two compared elements changed, after a frame of another width.
C25_Witness ==
    /\ threshold = [num |-> 1, den |-> 2]
    /\ ~should
    /\ last_diff_pct = [num |-> 1, den |-> 2]
    /\ Len(given) = 4
    /\ last_frame = Downsample(given, DIFF_MAX_WIDTH)

\* The label a line decides by its YES, PARTIAL or NO prefix, the colon
\* being optional.
PrefixLabel(line) ==
    CASE Upper(line.head) = "YES" -> "resolved"
      [] Upper(line.head) = "PARTIAL" -> "partial"
      [] Upper(line.head) = "NO" -> "watching"
      [] OTHER -> "none"

\* C26: _parse_verdict always returns resolved, partial or watching; a
\* valid FINAL_JSON fragment decides whatever the lines say; without one
\* the first non-empty line with a YES, PARTIAL or NO prefix decides; with
\* no such line, and for an empty reply, the label is watching.
C26_ParserOrder ==
    \A answer \in Replies :
        (response = answer /\ parsed # NoVerdict) =>
           LET prefixed == SelectSeq(answer.lines, LAMBDA l : PrefixLabel(l) # "none")
           IN /\ parsed.result \in {"resolved", "partial", "watching"}
              /\ IF answer.json \notin {NoJson, Malformed}
                 THEN parsed.result = ParseJson(answer.json).result
                 ELSE IF prefixed # <<>> THEN parsed.result = PrefixLabel(prefixed[1])
                 ELSE parsed.result = "watching"

\* x = y * n / d, for fractions x and y.
IsProduct(x, y, n, d) == x.num * y.den * d = y.num * n * x.den

\* C28: on_no_change adds one to the static counter and leaves the
\* interval alone on the first 5 calls in a row, and from the sixth on sets
\* it to 1.5 times itself or to the maximum of 5 s if that is less;
\* on_change_no_match sets the counter to 0 and the interval to the base;
\* on_partial sets the counter to 0 and the interval to half of itself or
\* to the minimum of 0.5 s if that is more.
C28_PollerTable ==
    [][/\ OnNoChange =>
             /\ static_count' = static_count + 1
             /\ static_count < 5 => interval' = interval
             /\ static_count >= 5 =>
                   IF interval.num * 3 < 5 * 2 * interval.den
                   THEN IsProduct(interval', interval, 3, 2)
                   ELSE interval' = [num |-> 5, den |-> 1]
       /\ OnChangeNoMatch => static_count' = 0 /\ interval' = base
       /\ OnPartial =>
             /\ static_count' = 0
             /\ IF interval.num * 2 > 2 * interval.den
                THEN IsProduct(interval', interval, 1, 2)
                ELSE interval' = [num |-> 1, den |-> 2]]_vars

\* A poller with the default base, slowed down by eight calls of
\* on_no_change to the maximum.
C28_Witness ==
    /\ base = DEFAULT_POLL_INTERVAL
    /\ static_count = 8
    /\ interval = MAX_POLL_INTERVAL

\* _run_loop calls context.add_verdict with what the vision call returned,
\* unless the call or the parser raised.
VerdictAppended(v) == v # "error"

\* _run_loop schedules task_mgr.log_wait_verdict for a job with a task.
VerdictLogged(j, v) == v # "error" /\ job[j].task # NoTask

\* C29: when the vision call of a job cancelled in the meantime returns,
\* its result is dropped: no verdict is added to the context, none is
\* logged to the task, the status and the result message stay those of the
\* cancellation, and no terminal write or wake event follows.
C29_CancelledResultDiscarded ==
    [][\A v \in Verdicts, iv \in Intervals :
         (VisionReturn(v, iv) /\ job[cur].status = "cancelled") =>
            /\ ~VerdictAppended(v)
            /\ ~VerdictLogged(cur, v)
            /\ job'[cur].status = "cancelled"
            /\ job'[cur].result = "reason"
            /\ loop' # "persist"
            /\ row' = row
            /\ wakes' = wakes]_vars

\* C30: a wait-update that arrives while the scheduler sleeps ends the
\* sleep at once, and one that arrives while the job's own vision call is
\* in flight (the gate it has reset is still empty when the call returns)
\* leaves the job due when the call returns.
C30_UpdateDueImmediately ==
    [][/\ \A j \in Updatable, c \in UpdateCriteria, to \in UpdateTimeouts :
             (Update(j, c, to) /\ loop = "sleep") => (wakeEvent' \/ sleepLeft' = 0)
       /\ \A v \in Verdicts, iv \in Intervals :
             (VisionReturn(v, iv) /\ cur \in jobs' /\ ~job[cur].gate) =>
                job'[cur].due <= 0]_vars

\* A task running _run_loop exists and is, or will be, inside the while
\* loop: a task that has not started yet returns at once when _loop_running
\* is set.
LoopAlive == loop \notin {"none", "created"} \/ (loop = "created" /\ ~loopRunning)

\* C31: add_job sets the wake event and no wake-up is lost.  The job it adds
\* is due at once; the scheduler does not go to sleep, and does not stay
\* asleep for the rest of its timeout, while a job that was added and never
\* evaluated is in the map; and when add_job returns a scheduler loop is
\* running.
C31_AddJobWakes ==
    [][/\ \A j \in Jobs : SubmitAdd(j) => (wakeEvent' /\ job'[j].due <= 0 /\ LoopAlive')
       /\ \A j \in Jobs : LoopSleep(j) => \A k \in jobs : evaluated[k]
       /\ (loop' = "sleep" /\ \E k \in jobs' : ~evaluated'[k]) => wakeEvent']_vars

\* C33: the scheduler stays serviceable after a failure: the loop task that
\* add_job creates enters the scheduling loop, also when an earlier run of
\* the loop was ended by an exception.
C33_LoopRestartsAfterFailure ==
    [][LoopStart => loop' = "top"]_vars

\* C34: no job is dropped silently.  A job the resolve or timeout path has
\* taken out of the map, and whose terminal handling is over, has a wait row
\* with that terminal status and a wake event.
C34_NoSilentDrop ==
    \A j \in Jobs :
        (j \notin jobs /\ cur # j /\ job[j].status \in {"resolved", "timeout"}) =>
            /\ row[j].status = job[j].status
            /\ wakes[j] # <<>>

\* The tick of job j has ended and left the job waiting: in the map,
\* watching, due one poller interval from now, with no terminal handling
\* under way, no terminal row and no wake event.
Transient(j, iv) ==
    /\ j \in jobs'
    /\ job'[j].status = "watching"
    /\ job'[j].due = iv
    /\ loop' = "top"
    /\ row' = row
    /\ wakes' = wakes

\* C32: a tick that ends in a capture miss or in an error of the vision
\* call is transient: the job stays in the map, watching, and is
\* rescheduled one poller interval from now, with no wake event and no
\* terminal row.  After a capture miss the context has no new frame, no
\* vision call was made and the diff gate is as it was.  Every tick of a
\* window job whose name is not resolved yet looks the name up again.
C32_TransientTick ==
    [][/\ \A j \in Jobs, iv \in Intervals :
             (EvalMiss(j, iv) \/ \E found \in BOOLEAN : WindowMiss(j, iv, found)) =>
                /\ Transient(j, iv)
                /\ job'[j].hasFrame = job[j].hasFrame
                /\ job'[j].gate = job[j].gate
                /\ job'[j].streak = job[j].streak
                /\ job'[j].still = job[j].still
       /\ \A iv \in Intervals :
             (VisionReturn("error", iv) /\ cur \in jobs) => Transient(cur, iv)
       /\ \A j \in WindowJobs, iv \in Intervals, ch \in BOOLEAN, found \in BOOLEAN :
             (/\ ~resolved_window_id[j]
              /\ \/ WindowMiss(j, iv, found)
                 \/ WindowStatic(j, iv, found)
                 \/ WindowVision(j, ch, found)) => looked'[j]]_vars

\* The window job has looked its name up on a tick after its first, found
\* nothing and waits for its next tick, and the screen job's vision call
\* has failed.
C32_Witness ==
    /\ "j1" \in jobs /\ looked["j1"] /\ ~resolved_window_id["j1"]
    /\ job["j1"].due > 0 /\ job["j1"].age > 0
    /\ "j2" \in jobs /\ job["j2"].poller = "on_change_no_match" /\ job["j2"].streak > 0

\* C35: on_wait_created and on_wait_finished of two waits of one task do
\* not lose one another's update.  When on_wait_created(T, w2) and
\* on_wait_finished(T, w1) have both completed, and w2 is still watched,
\* active_wait_ids of T holds w2 and not w1.
C35_NoLostMetadataUpdate ==
    \A w1, w2 \in Jobs :
        (/\ w1 # w2
         /\ job[w1].task # NoTask /\ job[w2].task = job[w1].task
         /\ hs[w1] = "done" /\ wakes[w1] # <<>>
         /\ hs[w2] = "done" /\ w2 \in jobs /\ job[w2].status = "watching") =>
            /\ w2 \in active[job[w1].task]
            /\ w1 \notin active[job[w1].task]

\* C36: at most one wake event is emitted for a wait job, and none for a
\* job that cancel_job has cancelled, whatever the scheduler was doing with
\* the job when the cancel request came.
C36_OneWakeNoneWhenCancelled ==
    \A j \in Jobs :
        /\ Len(wakes[j]) <= 1
        /\ hc[j] # "idle" => wakes[j] = <<>>

\* A job was cancelled while its vision call was in flight, the call came
\* back resolved and the iteration is over.
C36_Witness ==
    \E j \in Jobs :
        /\ hc[j] = "done"
        /\ job[j].status = "resolved"
        /\ cur = NoJob
        /\ wakes[j] = <<>>

\* C37: a promotion by streak counts only partial verdicts obtained for the
\* job's current criteria: a wait-update that replaces the criteria leaves
\* no partial verdict counted, so that PARTIAL_STREAK_RESOLVE new ones are
\* needed.
C37_StreakCountsCurrentCriteria ==
    [][\A j \in Updatable, c \in UpdateCriteria, to \in UpdateTimeouts :
         (Update(j, c, to) /\ job'[j].criteria # job[j].criteria) =>
            job'[j].streak = 0]_vars

\* C38: a watching row left behind by a job no scheduler holds does not
\* suppress stuck detection.  When check_stuck_tasks comes to an active task
\* that has been silent for the threshold, is past the cooldown, and lists
\* only abandoned waits, it alerts for the task.
C38_AbandonedWaitsDoNotSuppress ==
    [][\A t \in Tasks :
         (/\ StuckTask(t)
          /\ IdleEnough(stuck.rows[t].idle)
          /\ CooledDown(stuck.rows[t].meta.alert_age)
          /\ stuck.rows[t].meta.wait_ids \subseteq abandoned) =>
             /\ msgs'[t] = Append(msgs[t], "stuck")
             /\ since_alert'[t] = 0]_vars

\* The canonical label of a decision.
Canonical(decision) ==
    CASE decision \in {"resolved", " YES"} -> "resolved"
      [] decision = "progress" -> "partial"
      [] OTHER -> "watching"

\* C39 (as claimed): a valid FINAL_JSON whose decision maps to watching is
\* promoted to partial exactly when its confidence is at least the resolve
\* threshold and one of its evidence strings is not empty, a confidence
\* that is missing or not a number counting as 0; the decisions resolved
\* and partial stand whatever the confidence.
C39_ConfidencePromotion ==
    (parsed # NoVerdict /\ response.json \notin {NoJson, Malformed}) =>
        LET p == response.json
            conf == IF p.confidence.kind = "number" THEN p.confidence.value ELSE 0
            evident == \E i \in 1..Len(p.evidence.items) : p.evidence.items[i] # ""
        IN IF Canonical(p.decision) = "watching"
           THEN parsed.result =
                   IF conf >= RESOLVE_CONFIDENCE_THRESHOLD /\ evident THEN "partial"
                   ELSE "watching"
           ELSE parsed.result = Canonical(p.decision)

\* C39 (amended): the confidence counts as what float() makes of it: a
\* number as itself, a string holding a numeral as that number, true as 1,
\* and 0 when it is missing, null or rejected by float().  The evidence
\* counts when it is a list, or a bare string, with an item that is not
\* blank.  A decision that maps to watching is promoted to partial exactly
\* when the confidence is at least the threshold and the evidence counts;
\* resolved and partial stand whatever the confidence.
C39_ConfidencePromotionAsParsed ==
    (parsed # NoVerdict /\ response.json \notin {NoJson, Malformed}) =>
        LET p == response.json
            conf == CASE p.confidence.kind = "number" -> p.confidence.value
                      [] p.confidence.kind = "numeral" -> p.confidence.value
                      [] p.confidence.kind = "true" -> 100
                      [] OTHER -> 0
            evident == /\ p.evidence.kind # "number"
                       /\ \E i \in 1..Len(p.evidence.items) :
                             p.evidence.items[i] \notin {"", " "}
        IN IF Canonical(p.decision) = "watching"
           THEN parsed.result =
                   IF conf >= RESOLVE_CONFIDENCE_THRESHOLD /\ evident THEN "partial"
                   ELSE "watching"
           ELSE parsed.result = Canonical(p.decision)

\* A watching decision with a confidence of exactly the threshold and one
\* evidence string was promoted to partial.
C39_Witness ==
    /\ response.json \notin {NoJson, Malformed}
    /\ response.json.decision = "watching"
    /\ response.json.confidence = [kind |-> "number", value |-> RESOLVE_CONFIDENCE_THRESHOLD]
    /\ response.json.evidence = [kind |-> "list", items |-> <<"", "x">>]
    /\ parsed.result = "partial"

\* C40: the poller's interval is clamped.  After construction and after
\* every call it lies between MIN_POLL_INTERVAL and MAX_POLL_INTERVAL, for
\* every base interval a submit-wait request can carry, and on_no_change
\* never makes it smaller.
C40_IntervalClamped ==
    [][/\ ~Less(interval', MIN_POLL_INTERVAL)
       /\ ~Less(MAX_POLL_INTERVAL, interval')
       /\ OnNoChange => ~Less(interval', interval)]_vars

====
